---- MODULE Spec2Model ----
(***************************************************************************)
(* A model of web3x's WebSocket transport (src/providers/ws.ts) and of the  *)
(* Request Manager's subscription registry                                  *)
(* (src/request-manager/request-manager.ts).                                *)
(*                                                                          *)
(* JavaScript runs every handler (a socket event, a timer callback, a call  *)
(* of a public method) to completion, so each handler is one action.        *)
(*                                                                          *)
(* Text is modelled as a sequence of tokens.  A token is one character of   *)
(* JSON punctuation, a line break, a scalar, or the member list of one      *)
(* object (the text between its braces), which carries the fields the code  *)
(* reads: id, method, params.subscription and params.result / result.  A   *)
(* member list whose last value is a string with punctuation inside is      *)
(* three parts: the members up to the string's first character, the        *)
(* punctuation, and the string's last character with its closing quote.    *)
(***************************************************************************)
EXTENDS Integers, Sequences, FiniteSets, TLC

(***************************************************************************)
(* Bounds of the model.                                                     *)
(***************************************************************************)
\* request ids range over 1..MaxId
MaxId == 2
\* number of send() invocations in one behaviour
MaxCalls == 2
\* message events are taken while the dechunk buffer holds at most MaxBuf tokens
MaxBuf == 2
\* longest notification observer list
MaxObservers == 2
\* number of documents in one chunk of the dechunker specification
MaxDocs == 3
\* the firings of the 10 ms retry timer are counted modulo RetryWrap
RetryWrap == 2

Ids == 1..MaxId

(***************************************************************************)
(* Tokens and texts.                                                        *)
(***************************************************************************)
\* a punctuation / whitespace / scalar token
P(c) ==
  [t |-> c, id |-> 0, hasId |-> FALSE, method |-> "", sub |-> "", result |-> "",
   error |-> "", jsonrpc |-> FALSE]

\* the member list of an object with "jsonrpc":"2.0": id = 0 stands for "no
\* id field", method = "" for "no method field", result = "" for "no result
\* field"
M(i, m, s, r) ==
  [t |-> "m", id |-> i, hasId |-> i # 0, method |-> m, sub |-> s, result |-> r,
   error |-> "", jsonrpc |-> TRUE]

LBrace == P("{")
RBrace == P("}")
LBrack == P("[")
RBrack == P("]")
Comma == P(",")
\* one line break, \n or \r
NL == P("nl")
\* a falsy scalar document (0, null, false)
Zero == P("0")
\* the marker '|--|' the dechunker inserts between documents
SEP == P("|--|")

IsMembers(k) == k.t = "m"

\* the members "id":i,"result":"a of an object, up to inside the string
Open(i) ==
  [t |-> "open", id |-> i, hasId |-> i # 0, method |-> "", sub |-> "", result |-> "a",
   error |-> "", jsonrpc |-> TRUE]
\* the end b" of that string
Close == P("close")

IsOpen(k) == k.t = "open"

StartsWith(s, p) == Len(s) >= Len(p) /\ SubSeq(s, 1, Len(p)) = p

Drop(s, n) == SubSeq(s, n + 1, Len(s))

RECURSIVE StripNL(_)
StripNL(s) ==
  IF s = <<>> THEN <<>>
  ELSE IF Head(s) = NL THEN StripNL(Tail(s))
  ELSE <<Head(s)>> \o StripNL(Tail(s))

(***************************************************************************)
(* JSON.parse on token texts.  A document is an object, a flat array of     *)
(* objects and scalars, or a scalar; white space may stand between tokens   *)
(* but not inside a string.                                                 *)
(* The value of an object is [array |-> FALSE, truthy |-> TRUE,             *)
(* elems |-> <<its members>>]; of an array, its elements' members.          *)
(***************************************************************************)
NoMembers == [M(0, "", "", "") EXCEPT !.jsonrpc = FALSE]

\* the length of the array element s starts with, 0 when it starts with none
ElemLen(s) ==
  IF s = <<>> THEN 0
  ELSE IF Head(s) = Zero THEN 1
  ELSE IF Len(s) >= 2 /\ s[1] = LBrace /\ s[2] = RBrace THEN 2
  ELSE IF Len(s) >= 3 /\ s[1] = LBrace /\ IsMembers(s[2]) /\ s[3] = RBrace THEN 3
  ELSE IF Len(s) >= 4 /\ s[1] = LBrace /\ IsOpen(s[2]) /\ s[3] = Close /\ s[4] = RBrace
    THEN 4
  ELSE IF Len(s) >= 5 /\ s[1] = LBrace /\ IsOpen(s[2]) /\ s[3] = SEP /\ s[4] = Close
          /\ s[5] = RBrace
    THEN 5
  ELSE IF Len(s) >= 6 /\ s[1] = LBrace /\ IsOpen(s[2]) /\ s[3] = RBrace /\ s[4] = LBrace
          /\ s[5] = Close /\ s[6] = RBrace
    THEN 6
  ELSE 0

\* the members of the element s starts with
ElemMembers(s) ==
  CASE ElemLen(s) = 3 -> s[2]
    [] ElemLen(s) = 4 -> M(s[2].id, "", "", "ab")
    [] ElemLen(s) = 5 -> M(s[2].id, "", "", "a|--|b")
    [] ElemLen(s) = 6 -> M(s[2].id, "", "", "a}{b")
    [] OTHER -> NoMembers

\* the token at i stands inside a string
InString(text, i) ==
  \E j \in 1..(i - 1) : IsOpen(text[j]) /\ \A k \in (j + 1)..(i - 1) : text[k] # Close

\* s as a comma-separated, non-empty list of elements
RECURSIVE ParseElems(_)
ParseElems(s) ==
  LET n == ElemLen(s) IN
  IF n = 0 THEN [ok |-> FALSE, elems |-> <<>>]
  ELSE IF Len(s) = n THEN [ok |-> TRUE, elems |-> <<ElemMembers(s)>>]
  ELSE IF s[n + 1] # Comma THEN [ok |-> FALSE, elems |-> <<>>]
  ELSE LET rest == ParseElems(Drop(s, n + 1)) IN
       [ok |-> rest.ok, elems |-> <<ElemMembers(s)>> \o rest.elems]

JsonFail == [ok |-> FALSE, array |-> FALSE, truthy |-> FALSE, elems |-> <<>>]

JsonParse(text) ==
  LET s == StripNL(text) IN
  IF \E i \in 1..Len(text) : text[i] = NL /\ InString(text, i) THEN JsonFail
  ELSE IF s = <<Zero>> THEN [ok |-> TRUE, array |-> FALSE, truthy |-> FALSE, elems |-> <<>>]
  ELSE IF ElemLen(s) > 1 /\ ElemLen(s) = Len(s)
    THEN [ok |-> TRUE, array |-> FALSE, truthy |-> TRUE, elems |-> <<ElemMembers(s)>>]
  ELSE IF Len(s) >= 2 /\ s[1] = LBrack /\ s[Len(s)] = RBrack
    THEN IF Len(s) = 2
         THEN [ok |-> TRUE, array |-> TRUE, truthy |-> TRUE, elems |-> <<>>]
         ELSE LET r == ParseElems(SubSeq(s, 2, Len(s) - 1)) IN
              IF r.ok THEN [ok |-> TRUE, array |-> TRUE, truthy |-> TRUE, elems |-> r.elems]
              ELSE JsonFail
  ELSE JsonFail

\* the value handed on by the parser
Value(p) == [array |-> p.array, elems |-> p.elems]

(***************************************************************************)
(* The dechunker's four replace passes and the split at the marker.         *)
(***************************************************************************)
\* String.replace(/pre[\n\r]?post/g, pre + '|--|' + post)
RECURSIVE ReplaceAll(_, _, _)
ReplaceAll(s, pre, post) ==
  IF s = <<>> THEN <<>>
  ELSE IF StartsWith(s, pre \o post)
    THEN pre \o <<SEP>> \o post \o ReplaceAll(Drop(s, Len(pre) + Len(post)), pre, post)
  ELSE IF StartsWith(s, pre \o <<NL>> \o post)
    THEN pre \o <<SEP>> \o post \o ReplaceAll(Drop(s, Len(pre) + Len(post) + 1), pre, post)
  ELSE <<Head(s)>> \o ReplaceAll(Tail(s), pre, post)

\* String.split('|--|'): the pieces between the markers, at least one
RECURSIVE Split(_)
Split(s) ==
  IF \A i \in 1..Len(s) : s[i] # SEP THEN <<s>>
  ELSE LET i == CHOOSE j \in 1..Len(s) : s[j] = SEP /\ \A k \in 1..(j - 1) : s[k] # SEP
       IN <<SubSeq(s, 1, i - 1)>> \o Split(Drop(s, i))

\* Dechunk without the fourth pass, the one for }]{
DechunkThreePasses(data) ==
  Split(ReplaceAll(ReplaceAll(ReplaceAll(data,
          <<RBrace>>, <<LBrace>>),
          <<RBrace, RBrack>>, <<LBrack, LBrace>>),
          <<RBrace>>, <<LBrack, LBrace>>))

Dechunk(data) ==
  Split(ReplaceAll(ReplaceAll(ReplaceAll(ReplaceAll(data,
          <<RBrace>>, <<LBrace>>),
          <<RBrace, RBrack>>, <<LBrack, LBrace>>),
          <<RBrace>>, <<LBrack, LBrace>>),
          <<RBrace, RBrack>>, <<LBrace>>))

(***************************************************************************)
(* The state.                                                               *)
(***************************************************************************)
VARIABLES
  readyState,            \* connection.readyState: CONNECTING, OPEN, CLOSING, CLOSED
  connected,             \* WebsocketProvider.connected
  optTimeout,            \* whether options.timeout is set (a positive number)
  calls,                 \* the send() invocations so far: call number -> payload
  responseCallbacks,     \* WebsocketProvider.responseCallbacks: id -> entry
  callTimers,            \* calls whose per-call setTimeout is scheduled
  deferred,              \* calls whose 10 ms retry setTimeout is scheduled
  retries,               \* how often a 10 ms retry timer has fired (mod RetryWrap)
  notificationCallbacks, \* WebsocketProvider.notificationCallbacks
  lastChunk,             \* WebsocketProvider.lastChunk
  lastChunkTimeout,      \* whether the timer this.lastChunkTimeout names is scheduled
  graceTimers,           \* number of scheduled 15 s timers
  subscriptions,         \* RequestManager.subscriptions: id -> subscription
  subscriptionKeys,      \* the keys of RequestManager.subscriptions, in insertion order
  messageId,             \* the request id counter behind Jsonrpc.toPayload
  managed,               \* the calls made by the Request Manager: call number -> kind
  hasOn,                 \* whether the provider has an 'on' method
  hasReset,              \* whether the provider has a 'reset' method
  jsonInterface,         \* Contract.jsonInterface
  address,               \* Contract.address, "" when not set
  ret,                   \* what the last operation on the contract returned or threw
  listeners,             \* the Subscription objects made by Contract.on and once
  invoked,               \* per call, how often its callback has been invoked (2: more than once)
  \* what the handler that ran last did, for the properties to read:
  out,                   \* the messages parseResponse returned
  fired,                 \* the response callbacks invoked, in order
  notified,              \* the notification observers invoked, in order
  delivered,             \* the subscription callbacks invoked, in order
  txd,                   \* the payloads written to the socket
  raised,                \* whether the handler ended by throwing
  rx,                    \* the text of the message event the handler got
  settled,               \* the promises of the Request Manager settled, in order
  fed                    \* the chunks received since the buffer was last empty

vars == <<readyState, connected, optTimeout, calls, responseCallbacks, callTimers,
          deferred, retries, notificationCallbacks, lastChunk, lastChunkTimeout, graceTimers,
          subscriptions, subscriptionKeys, messageId, managed, hasOn, hasReset, jsonInterface, address,
          ret, listeners, invoked, out, fired, notified, delivered, txd, raised, rx, settled, fed>>

socketVars == <<readyState, connected>>
tableVars == <<calls, responseCallbacks, callTimers, deferred>>
chunkVars == <<lastChunk, lastChunkTimeout, graceTimers, fed>>
managerVars == <<subscriptions, subscriptionKeys, messageId, managed>>
capVars == <<hasOn, hasReset, listeners>>
binderVars == <<jsonInterface, address, ret>>

EmptyMap == [x \in {} |-> 0]
Put(f, k, v) == [x \in DOMAIN f \cup {k} |-> IF x = k THEN v ELSE f[x]]
Remove(f, k) == [x \in DOMAIN f \ {k} |-> f[x]]

\* the result argument of a callback invoked with an error (undefined)
NoValue == [array |-> FALSE, elems |-> <<>>]

\* a request; batch holds the requests of a batch payload (an array, which
\* has no id and no method of its own: id = 0, method = "")
Payload(i, m, p) == [id |-> i, method |-> m, params |-> p, batch |-> <<>>]

\* payload.id || payload[0].id
PayloadId(payload) == IF payload.id # 0 THEN payload.id ELSE payload.batch[1].id

\* payload.method || payload[0].method
PayloadMethod(payload) ==
  IF payload.method # "" THEN payload.method ELSE payload.batch[1].method

\* the handler of the Request Manager among the notification observers
RMListener == "rm"
Observers == {"o1", "o2"}

\* the ids in use by a call that has not been settled yet
LiveIds == DOMAIN responseCallbacks \cup {PayloadId(calls[c]) : c \in deferred}

RECURSIVE Ascending(_)
Ascending(S) ==
  IF S = {} THEN <<>>
  ELSE LET m == CHOOSE x \in S : \A y \in S : x <= y
       IN <<m>> \o Ascending(S \ {m})

(***************************************************************************)
(* WebsocketProvider.timeout: every entry's callback gets 'Connection       *)
(* error', in the key order of for-in (ascending ids), and is deleted.      *)
(***************************************************************************)
TimeoutFired(rc) ==
  LET keys == Ascending(DOMAIN rc) IN
  [k \in 1..Len(keys) |->
     [call |-> rc[keys[k]].callback, error |-> "Connection error", result |-> NoValue]]

\* timeout() without the delete
TimeoutTableKeeps(rc) == rc

TimeoutTable(rc) == EmptyMap

(***************************************************************************)
(* WebsocketProvider.parseResponse.  st carries lastChunk, the timer and    *)
(* the returnValues collected so far.                                       *)
(***************************************************************************)
\* parseResponse without its clearTimeout calls
ClearTimeoutNoop(st) == st

\* clearTimeout(this.lastChunkTimeout)
ClearTimeout(st) ==
  [st EXCEPT !.graceTimers = IF st.lastChunkTimeout THEN @ - 1 ELSE @,
             !.lastChunkTimeout = FALSE]

\* this.lastChunkTimeout = setTimeout(..., 1000 * 15)
SetTimeout(st) ==
  [st EXCEPT !.graceTimers = @ + 1, !.lastChunkTimeout = TRUE]

\* the body of dechunkedData.forEach for one fragment
ParseFragment(st, frag) ==
  LET data == IF st.lastChunk # <<>> THEN st.lastChunk \o frag ELSE frag
      p == JsonParse(data)
  IN IF ~p.ok
     THEN SetTimeout(ClearTimeout([st EXCEPT !.lastChunk = data]))
     ELSE [ClearTimeout(st) EXCEPT
             !.lastChunk = <<>>,
             !.returnValues = IF p.truthy THEN Append(@, Value(p)) ELSE @]

RECURSIVE ParseFragments(_, _)
ParseFragments(st, frags) ==
  IF frags = <<>> THEN st
  ELSE ParseFragments(ParseFragment(st, Head(frags)), Tail(frags))

ParseResponse(data) ==
  ParseFragments([lastChunk |-> lastChunk, lastChunkTimeout |-> lastChunkTimeout,
                  graceTimers |-> graceTimers, returnValues |-> <<>>],
                 Dechunk(data))

(***************************************************************************)
(* WebsocketProvider.onMessage: the dispatch of one parsed message.  d      *)
(* carries the table and the invocations made so far.                       *)
(***************************************************************************)
\* the id the message is matched under, 0 for none
RECURSIVE LastPendingId(_, _, _)
LastPendingId(rc, elems, id) ==
  IF elems = <<>> THEN id
  ELSE LastPendingId(rc, Tail(elems),
                     IF Head(elems).id \in DOMAIN rc THEN Head(elems).id ELSE id)

MatchId(rc, result) ==
  IF result.array THEN LastPendingId(rc, result.elems, 0)
  ELSE result.elems[1].id

\* a test that finds the marker in every method
HasSubscriptionMarkerAny(method) == TRUE

\* result.method.indexOf('_subscription') !== -1
HasSubscriptionMarker(method) == method \in {"eth_subscription", "shh_subscription"}

\* result && result.method && ... of a message without id
IsNotification(result) ==
  /\ ~result.array
  /\ result.elems[1].method # ""
  /\ HasSubscriptionMarker(result.elems[1].method)

\* RMHandler handing the callback params.subscription instead of params.result
RMHandlerPassesId(subs, result) ==
  LET m == result.elems[1] IN
  IF m.method # "" /\ m.sub \in DOMAIN subs /\ subs[m.sub].callback # 0
  THEN <<[callback |-> subs[m.sub].callback, error |-> "null", result |-> m.sub]>>
  ELSE <<>>

\* the Request Manager's 'data' handler (constructor): the callbacks it invokes
RMHandler(subs, result) ==
  LET m == result.elems[1] IN
  IF m.method # "" /\ m.sub \in DOMAIN subs /\ subs[m.sub].callback # 0
  THEN <<[callback |-> subs[m.sub].callback, error |-> "null", result |-> m.result]>>
  ELSE <<>>

RECURSIVE Broadcast(_, _, _)
Broadcast(d, observers, result) ==
  IF observers = <<>> THEN d
  ELSE Broadcast(
         [d EXCEPT !.notified = Append(@, [observer |-> Head(observers), result |-> result]),
                   !.delivered = IF Head(observers) = RMListener
                                 THEN @ \o RMHandler(subscriptions, result) ELSE @],
         Tail(observers), result)

\* Dispatch without the delete of the matched entry
DispatchKeepsEntry(d, result) ==
  LET id == MatchId(d.rc, result) IN
  IF id = 0 /\ IsNotification(result)
  THEN Broadcast(d, notificationCallbacks, result)
  ELSE IF id # 0 /\ id \in DOMAIN d.rc
  THEN [d EXCEPT !.fired = Append(@, [call |-> d.rc[id].callback, error |-> "none",
                                      result |-> result])]
  ELSE d

Dispatch(d, result) ==
  LET id == MatchId(d.rc, result) IN
  IF id = 0 /\ IsNotification(result)
  THEN Broadcast(d, notificationCallbacks, result)
  ELSE IF id # 0 /\ id \in DOMAIN d.rc
  THEN [d EXCEPT !.fired = Append(@, [call |-> d.rc[id].callback, error |-> "none",
                                      result |-> result]),
                 !.rc = Remove(@, id)]
  ELSE d

RECURSIVE DispatchAll(_, _)
DispatchAll(d, results) ==
  IF results = <<>> THEN d
  ELSE DispatchAll(Dispatch(d, Head(results)), Tail(results))

(***************************************************************************)
(* The callbacks the Request Manager hands to provider.send.  An outcome    *)
(* is what the promise is settled with.                                     *)
(***************************************************************************)
Rejected(e, got, expected, response) ==
  [state |-> "rejected", error |-> e, got |-> got, expected |-> expected,
   value |-> "", response |-> response]

Resolved(v, response) ==
  [state |-> "resolved", error |-> "", got |-> 0, expected |-> 0,
   value |-> v, response |-> response]

\* !result is false
Truthy(result) == result.array \/ result.elems # <<>>

\* the fields result.id, result.error, result.result, result.jsonrpc read
\* off the response: those of the object, none off an array
Fields(result) ==
  IF ~result.array /\ result.elems # <<>> THEN result.elems[1] ELSE NoMembers

\* Jsonrpc.isValidResponse(result): jsonrpc, id, and result or error
IsValidResponse(result) ==
  LET r == Fields(result) IN
  /\ ~result.array
  /\ r.jsonrpc
  /\ r.hasId
  /\ (r.result # "" \/ r.error # "")

\* ErrorResponse(result): the error the node returned
ErrorResponse(result) == Rejected("Returned error", 0, 0, result)

\* InvalidResponse(result)
InvalidResponse(result) == Rejected("Invalid JSON RPC response", 0, 0, result)

\* the callback of RequestManager.send for the request payload
SendCallback(payload, err, result) ==
  LET r == Fields(result) IN
  IF err # "none" THEN Rejected(err, 0, 0, NoValue)
  ELSE IF ~Truthy(result) THEN Rejected("No result.", 0, 0, NoValue)
  ELSE IF r.id # 0 /\ payload.id # r.id
    THEN Rejected("Wrong response id", r.id, payload.id, NoValue)
  ELSE IF r.error # "" THEN ErrorResponse(result)
  ELSE IF ~IsValidResponse(result) THEN InvalidResponse(result)
  ELSE Resolved(r.result, NoValue)

\* the callback of RequestManager.sendBatch
SendBatchCallback(err, results) ==
  IF err # "none" THEN Rejected(err, 0, 0, NoValue)
  ELSE IF ~results.array THEN InvalidResponse(results)
  ELSE Resolved("", results)

\* the settlements the invocations f make: a promise is settled by the first
\* invocation of its callback
RECURSIVE Settlements(_, _, _)
Settlements(mg, cs, f) ==
  IF f = <<>> THEN <<>>
  ELSE LET c == Head(f).call IN
       IF c \in DOMAIN mg
       THEN <<[call |-> c,
               outcome |-> IF mg[c] = "batch"
                           THEN SendBatchCallback(Head(f).error, Head(f).result)
                           ELSE SendCallback(cs[c], Head(f).error, Head(f).result)]>>
              \o Settlements(mg, cs, Tail(f))
       ELSE Settlements(mg, cs, Tail(f))

\* how often the callback of call c has been invoked according to count
Times(count, c) == IF c <= Len(count) THEN count[c] ELSE 0

\* count after the invocations f, for the calls 1..n
Tally(count, n, f) ==
  [c \in 1..n |->
     LET k == Times(count, c) + Cardinality({j \in 1..Len(f) : f[j].call = c})
     IN IF k > 2 THEN 2 ELSE k]

\* the promises behind the callbacks invoked by this handler are settled
Settle ==
  /\ settled' = Settlements(managed', calls', fired')
  /\ invoked' = Tally(invoked, Len(calls'), fired')

\* no operation on the contract has been run
NoReturn == [op |-> "none"]

(***************************************************************************)
(* Handlers of the provider.                                                *)
(***************************************************************************)
\* nobody is called back and nothing is written
Quiet ==
  /\ out' = <<>>
  /\ fired' = <<>>
  /\ notified' = <<>>
  /\ delivered' = <<>>
  /\ txd' = <<>>
  /\ raised' = FALSE
  /\ rx' = <<>>
  /\ settled' = <<>>
  /\ invoked' = invoked

\* onOpen, run by the socket's open event
OnOpen ==
  /\ readyState = "CONNECTING"
  /\ readyState' = "OPEN"
  /\ connected' = TRUE
  /\ Quiet
  /\ UNCHANGED <<optTimeout, capVars, binderVars, retries, tableVars, notificationCallbacks, chunkVars,
                 managerVars>>

\* onError, run by the socket's error event; the socket then goes down
OnError ==
  /\ readyState \in {"CONNECTING", "OPEN"}
  /\ readyState' = "CLOSING"
  /\ fired' = TimeoutFired(responseCallbacks)
  /\ responseCallbacks' = TimeoutTable(responseCallbacks)
  /\ out' = <<>> /\ notified' = <<>> /\ delivered' = <<>> /\ txd' = <<>>
  /\ raised' = FALSE /\ rx' = <<>>
  /\ UNCHANGED <<connected, optTimeout, capVars, binderVars, retries, calls, callTimers, deferred,
                 notificationCallbacks, chunkVars, managerVars>>
  /\ Settle

\* onClose without its reset() call
OnCloseNoReset ==
  /\ readyState # "CLOSED"
  /\ readyState' = "CLOSED"
  /\ fired' = TimeoutFired(responseCallbacks)
  /\ responseCallbacks' = TimeoutTable(responseCallbacks)
  /\ connected' = FALSE
  /\ out' = <<>> /\ notified' = <<>> /\ delivered' = <<>> /\ txd' = <<>>
  /\ raised' = FALSE /\ rx' = <<>>
  /\ UNCHANGED <<optTimeout, capVars, binderVars, retries, calls, callTimers, deferred, chunkVars,
                 managerVars, notificationCallbacks>>
  /\ Settle

\* onClose, run by the socket's close event: timeout(), reset(), connected = false
OnClose ==
  /\ readyState # "CLOSED"
  /\ readyState' = "CLOSED"
  /\ fired' = TimeoutFired(responseCallbacks)
            \o TimeoutFired(TimeoutTable(responseCallbacks))
  /\ responseCallbacks' = TimeoutTable(TimeoutTable(responseCallbacks))
  /\ notificationCallbacks' = <<>>
  /\ connected' = FALSE
  /\ out' = <<>> /\ notified' = <<>> /\ delivered' = <<>> /\ txd' = <<>>
  /\ raised' = FALSE /\ rx' = <<>>
  /\ UNCHANGED <<optTimeout, capVars, binderVars, retries, calls, callTimers, deferred, chunkVars,
                 managerVars>>
  /\ Settle

\* disconnect(): connection.close()
Disconnect ==
  /\ readyState' = IF readyState \in {"CONNECTING", "OPEN"} THEN "CLOSING" ELSE readyState
  /\ Quiet
  /\ UNCHANGED <<connected, optTimeout, capVars, binderVars, retries, tableVars, notificationCallbacks,
                 chunkVars, managerVars>>

\* reset() that leaves the observers registered
ResetBodyKeepsObservers ==
  /\ fired' = TimeoutFired(responseCallbacks)
  /\ responseCallbacks' = TimeoutTable(responseCallbacks)
  /\ notificationCallbacks' = notificationCallbacks

\* reset(): timeout(), notificationCallbacks = []
ResetBody ==
  /\ fired' = TimeoutFired(responseCallbacks)
  /\ responseCallbacks' = TimeoutTable(responseCallbacks)
  /\ notificationCallbacks' = <<>>

Reset ==
  /\ ResetBody
  /\ out' = <<>> /\ notified' = <<>> /\ delivered' = <<>> /\ txd' = <<>>
  /\ raised' = FALSE /\ rx' = <<>>
  /\ UNCHANGED <<socketVars, optTimeout, capVars, binderVars, retries, calls, callTimers, deferred,
                 chunkVars, managerVars>>
  /\ Settle

\* on('data', callback)
On(o) ==
  /\ Len(notificationCallbacks) < MaxObservers
  /\ notificationCallbacks' = Append(notificationCallbacks, o)
  /\ Quiet
  /\ UNCHANGED <<socketVars, optTimeout, capVars, binderVars, retries, tableVars, chunkVars, managerVars>>

\* removeListener('data', callback): the first occurrence is spliced out
RemoveListener(o) ==
  /\ notificationCallbacks' =
       IF \E i \in 1..Len(notificationCallbacks) : notificationCallbacks[i] = o
       THEN LET i == CHOOSE j \in 1..Len(notificationCallbacks) :
                       /\ notificationCallbacks[j] = o
                       /\ \A k \in 1..(j - 1) : notificationCallbacks[k] # o
            IN SubSeq(notificationCallbacks, 1, i - 1)
                 \o Drop(notificationCallbacks, i)
       ELSE notificationCallbacks
  /\ Quiet
  /\ UNCHANGED <<socketVars, optTimeout, capVars, binderVars, retries, tableVars, chunkVars, managerVars>>

\* removeAllListeners('data')
RemoveAllListeners ==
  /\ notificationCallbacks' = <<>>
  /\ Quiet
  /\ UNCHANGED <<socketVars, optTimeout, capVars, binderVars, retries, tableVars, chunkVars, managerVars>>

\* addResponseCallback that keeps no entry but the new one
AddResponseCallbackAlone(c, payload) ==
  /\ responseCallbacks' =
       Put(EmptyMap, PayloadId(payload),
           [callback |-> c, method |-> PayloadMethod(payload)])
  /\ callTimers' = IF optTimeout THEN callTimers \cup {c} ELSE callTimers

\* addResponseCallback that schedules no timer
AddResponseCallbackNoTimer(c, payload) ==
  /\ responseCallbacks' =
       Put(responseCallbacks, PayloadId(payload),
           [callback |-> c, method |-> PayloadMethod(payload)])
  /\ callTimers' = callTimers

\* addResponseCallback(payload, callback) for the call numbered c
AddResponseCallback(c, payload) ==
  /\ responseCallbacks' =
       Put(responseCallbacks, PayloadId(payload),
           [callback |-> c, method |-> PayloadMethod(payload)])
  /\ callTimers' = IF optTimeout THEN callTimers \cup {c} ELSE callTimers

\* send without the onError() call on a connection that is not open
SendBodyNoSweep(c, payload) ==
  IF readyState = "CONNECTING"
  THEN /\ deferred' = deferred \cup {c}
       /\ fired' = <<>>
       /\ txd' = <<>>
       /\ UNCHANGED <<responseCallbacks, callTimers>>
  ELSE IF readyState # "OPEN"
  THEN /\ deferred' = deferred \ {c}
       /\ fired' = <<[call |-> c, error |-> "connection not open", result |-> NoValue]>>
       /\ txd' = <<>>
       /\ UNCHANGED <<responseCallbacks, callTimers>>
  ELSE /\ deferred' = deferred \ {c}
       /\ fired' = <<>>
       /\ txd' = <<payload>>
       /\ AddResponseCallback(c, payload)

\* send that fails at once on a connection that is still being established
SendBodyNoDefer(c, payload) ==
  IF readyState # "OPEN"
  THEN /\ deferred' = deferred \ {c}
       /\ fired' = TimeoutFired(responseCallbacks)
                 \o <<[call |-> c, error |-> "connection not open", result |-> NoValue]>>
       /\ responseCallbacks' = TimeoutTable(responseCallbacks)
       /\ txd' = <<>>
       /\ UNCHANGED callTimers
  ELSE /\ deferred' = deferred \ {c}
       /\ fired' = <<>>
       /\ txd' = <<payload>>
       /\ AddResponseCallback(c, payload)

\* send(payload, callback) for the call numbered c
SendBody(c, payload) ==
  IF readyState = "CONNECTING"
  THEN /\ deferred' = deferred \cup {c}
       /\ fired' = <<>>
       /\ txd' = <<>>
       /\ UNCHANGED <<responseCallbacks, callTimers>>
  ELSE IF readyState # "OPEN"
  THEN /\ deferred' = deferred \ {c}
       /\ fired' = TimeoutFired(responseCallbacks)
                 \o <<[call |-> c, error |-> "connection not open", result |-> NoValue]>>
       /\ responseCallbacks' = TimeoutTable(responseCallbacks)
       /\ txd' = <<>>
       /\ UNCHANGED callTimers
  ELSE /\ deferred' = deferred \ {c}
       /\ fired' = <<>>
       /\ txd' = <<payload>>
       /\ AddResponseCallback(c, payload)

\* a caller's send with an id of its choice that no unsettled call uses
Send(i) ==
  /\ Len(calls) < MaxCalls
  /\ i \notin LiveIds
  /\ calls' = Append(calls, Payload(i, "eth_call", <<>>))
  /\ SendBody(Len(calls) + 1, Payload(i, "eth_call", <<>>))
  /\ out' = <<>> /\ notified' = <<>> /\ delivered' = <<>>
  /\ raised' = FALSE /\ rx' = <<>>
  /\ UNCHANGED <<socketVars, optTimeout, capVars, binderVars, retries, notificationCallbacks, chunkVars,
                 managerVars>>
  /\ Settle

\* the 10 ms timer of a deferred send: send(payload, callback) again
RetrySend(c) ==
  /\ c \in deferred
  /\ SendBody(c, calls[c])
  /\ retries' = (retries + 1) % RetryWrap
  /\ out' = <<>> /\ notified' = <<>> /\ delivered' = <<>>
  /\ raised' = FALSE /\ rx' = <<>>
  /\ UNCHANGED <<socketVars, optTimeout, capVars, binderVars, calls, notificationCallbacks, chunkVars,
                 managerVars>>
  /\ Settle

\* the options.timeout timer set by addResponseCallback for call c
CallTimeout(c) ==
  /\ c \in callTimers
  /\ callTimers' = callTimers \ {c}
  /\ LET id == PayloadId(calls[c]) IN
     IF id \in DOMAIN responseCallbacks
     THEN /\ fired' = <<[call |-> responseCallbacks[id].callback,
                         error |-> "Connection timeout", result |-> NoValue]>>
          /\ responseCallbacks' = Remove(responseCallbacks, id)
     ELSE /\ fired' = <<>>
          /\ UNCHANGED responseCallbacks
  /\ out' = <<>> /\ notified' = <<>> /\ delivered' = <<>> /\ txd' = <<>>
  /\ raised' = FALSE /\ rx' = <<>>
  /\ UNCHANGED <<socketVars, optTimeout, capVars, binderVars, retries, calls, deferred,
                 notificationCallbacks, chunkVars, managerVars>>
  /\ Settle

\* a 15 s timer set by parseResponse: timeout(), then throw 'Invalid response data'
GraceTimeout ==
  /\ graceTimers > 0
  /\ \E named \in BOOLEAN :
       /\ named => lastChunkTimeout
       /\ ~named => graceTimers > (IF lastChunkTimeout THEN 1 ELSE 0)
       /\ lastChunkTimeout' = IF named THEN FALSE ELSE lastChunkTimeout
  /\ graceTimers' = graceTimers - 1
  /\ fired' = TimeoutFired(responseCallbacks)
  /\ responseCallbacks' = TimeoutTable(responseCallbacks)
  /\ raised' = TRUE
  /\ fed' = [n |-> 0, text |-> <<>>]
  /\ out' = <<>> /\ notified' = <<>> /\ delivered' = <<>> /\ txd' = <<>> /\ rx' = <<>>
  /\ UNCHANGED <<socketVars, optTimeout, capVars, binderVars, retries, calls, callTimers, deferred,
                 notificationCallbacks, lastChunk, managerVars>>
  /\ Settle

\* the chunks received since the buffer was last empty, while the 15 s have
\* not run out and no message has come of them: how many (2 for two or
\* more) and their text; n = 0 when that is not known
Fed(data, st) ==
  IF lastChunk = <<>> THEN [n |-> 1, text |-> data]
  ELSE IF fed.n = 0 \/ (st.returnValues # <<>> /\ st.lastChunk # <<>>)
    THEN [n |-> 0, text |-> <<>>]
  ELSE [n |-> 2, text |-> fed.text \o data]

\* onMessage, run by the socket's message event; a frame that is no text
\* is the empty text
OnMessage(data) ==
  /\ readyState \in {"OPEN", "CLOSING"}
  /\ Len(lastChunk) <= MaxBuf
  /\ \E st \in {ParseResponse(data)} :
     \E d \in {DispatchAll([rc |-> responseCallbacks, fired |-> <<>>,
                            notified |-> <<>>, delivered |-> <<>>],
                           st.returnValues)} :
        /\ lastChunk' = st.lastChunk
        /\ lastChunkTimeout' = st.lastChunkTimeout
        /\ graceTimers' = st.graceTimers
        /\ out' = st.returnValues
        /\ responseCallbacks' = d.rc
        /\ fired' = d.fired
        /\ notified' = d.notified
        /\ delivered' = d.delivered
        /\ fed' = Fed(data, st)
  /\ rx' = <<data>>
  /\ txd' = <<>> /\ raised' = FALSE
  /\ UNCHANGED <<socketVars, optTimeout, capVars, binderVars, retries, calls, callTimers, deferred,
                 notificationCallbacks, managerVars>>
  /\ Settle

(***************************************************************************)
(* Handlers of the Request Manager over a WebsocketProvider.                *)
(***************************************************************************)
SubIds == {"a", "b"}
SubCallbacks == {1, 2}
Results == {"r1", "r2"}

\* the unsubscribe method of the eth namespace, whatever the type
UnsubscribeMethodEth(type) == "eth_unsubscribe"

\* type + '_unsubscribe'
UnsubscribeMethod(type) ==
  CASE type = "eth" -> "eth_unsubscribe"
    [] type = "shh" -> "shh_unsubscribe"

\* Jsonrpc.toPayload(method, params): the next id of the counter
ToPayload(method, params) == Payload(messageId + 1, method, params)

\* the keys left after delete of those in S
Without(keys, S) == SelectSeq(keys, LAMBDA k : k \notin S)

\* addSubscription(id, name, type, callback)
AddSubscription(id, name, type, callback) ==
  /\ IF hasOn
     THEN /\ subscriptions' =
               Put(subscriptions, id, [callback |-> callback, type |-> type, name |-> name])
          /\ subscriptionKeys' = IF id \in DOMAIN subscriptions THEN subscriptionKeys
                                 ELSE Append(subscriptionKeys, id)
          /\ Quiet
     ELSE /\ UNCHANGED <<subscriptions, subscriptionKeys>>
          /\ out' = <<>> /\ fired' = <<>> /\ notified' = <<>> /\ delivered' = <<>>
          /\ txd' = <<>> /\ rx' = <<>> /\ settled' = <<>> /\ invoked' = invoked
          /\ raised' = TRUE
  /\ UNCHANGED <<socketVars, optTimeout, capVars, binderVars, retries, tableVars,
                 notificationCallbacks, chunkVars, messageId, managed>>

\* RequestManager.send(data) for the call numbered c, over the
\* WebsocketProvider
ManagerSendBody(c, method, params) ==
  \E payload \in {ToPayload(method, params)} :
     /\ messageId' = payload.id
     /\ calls' = Append(calls, payload)
     /\ managed' = Put(managed, c, "send")
     /\ SendBody(c, payload)

\* Jsonrpc.toBatchPayload(data): one request per entry, with successive ids
ToBatchPayload(methods) ==
  [id |-> 0, method |-> "", params |-> <<>>,
   batch |-> [k \in 1..Len(methods) |-> Payload(messageId + k, methods[k], <<>>)]]

\* a caller's RequestManager.sendBatch(data), data not empty
ManagerSendBatch(methods) ==
  /\ Len(calls) < MaxCalls
  /\ \E payload \in {ToBatchPayload(methods)} :
        /\ messageId' = messageId + Len(methods)
        /\ calls' = Append(calls, payload)
        /\ managed' = Put(managed, Len(calls) + 1, "batch")
        /\ SendBody(Len(calls) + 1, payload)
  /\ out' = <<>> /\ notified' = <<>> /\ delivered' = <<>>
  /\ raised' = FALSE /\ rx' = <<>>
  /\ UNCHANGED <<socketVars, optTimeout, capVars, binderVars, retries,
                 notificationCallbacks, chunkVars, subscriptions,
                 subscriptionKeys>>
  /\ Settle

\* a caller's RequestManager.send({method, params})
ManagerSend(method) ==
  /\ Len(calls) < MaxCalls
  /\ ManagerSendBody(Len(calls) + 1, method, <<>>)
  /\ out' = <<>> /\ notified' = <<>> /\ delivered' = <<>>
  /\ raised' = FALSE /\ rx' = <<>>
  /\ UNCHANGED <<socketVars, optTimeout, capVars, binderVars, retries,
                 notificationCallbacks, chunkVars, subscriptions,
                 subscriptionKeys>>
  /\ Settle

\* removeSubscription(id): send the unsubscribe request, delete the entry
RemoveSubscription(id) ==
  IF id \in DOMAIN subscriptions
  THEN /\ Len(calls) < MaxCalls
       /\ ManagerSendBody(Len(calls) + 1, UnsubscribeMethod(subscriptions[id].type),
                          <<id>>)
       /\ subscriptions' = Remove(subscriptions, id)
       /\ subscriptionKeys' = Without(subscriptionKeys, {id})
       /\ out' = <<>> /\ notified' = <<>> /\ delivered' = <<>>
       /\ raised' = FALSE /\ rx' = <<>>
       /\ UNCHANGED <<socketVars, optTimeout, capVars, binderVars, retries,
                      notificationCallbacks, chunkVars>>
       /\ Settle
  ELSE /\ Quiet
       /\ UNCHANGED <<socketVars, optTimeout, capVars, binderVars, retries, tableVars,
                      notificationCallbacks, chunkVars, managerVars>>

(***************************************************************************)
(* Texts the socket delivers.                                               *)
(***************************************************************************)
Reply(i) == <<LBrace, M(i, "", "", "r1"), RBrace>>
Notification(s, r) == <<LBrace, M(0, "eth_subscription", s, r), RBrace>>
BatchReply(i, j) == <<LBrack>> \o Reply(i) \o <<Comma>> \o Reply(j) \o <<RBrack>>

(***************************************************************************)
(* The provider on its own: send called with any id no unsettled call uses, *)
(* the socket's events and the timers.  The socket delivers whole replies   *)
(* in any order, two replies in one chunk, a batch reply, a reply cut in    *)
(* two or three chunks, and frames that are no text.                        *)
(***************************************************************************)
Chunks ==
  {Reply(i) : i \in Ids}
    \cup {Reply(MaxId) \o Reply(1), BatchReply(1, MaxId), <<>>}
    \cup {<<LBrace>>, <<M(1, "", "", "r1"), RBrace>>, <<M(1, "", "", "r1")>>, <<RBrace>>}

Init ==
  /\ readyState = "CONNECTING"
  /\ connected = FALSE
  /\ optTimeout \in BOOLEAN
  /\ calls = <<>>
  /\ responseCallbacks = EmptyMap
  /\ callTimers = {}
  /\ deferred = {}
  /\ retries = 0
  /\ notificationCallbacks = <<>>
  /\ lastChunk = <<>>
  /\ lastChunkTimeout = FALSE
  /\ graceTimers = 0
  /\ subscriptions = EmptyMap
  /\ subscriptionKeys = <<>>
  /\ messageId = 0
  /\ managed = EmptyMap
  /\ hasOn = TRUE
  /\ hasReset = TRUE
  /\ jsonInterface = <<>>
  /\ address = ""
  /\ ret = NoReturn
  /\ listeners = <<>>
  /\ invoked = <<>>
  /\ out = <<>>
  /\ fired = <<>>
  /\ notified = <<>>
  /\ delivered = <<>>
  /\ txd = <<>>
  /\ raised = FALSE
  /\ rx = <<>>
  /\ settled = <<>>
  /\ fed = [n |-> 0, text |-> <<>>]

Next ==
  \/ OnOpen
  \/ OnError
  \/ OnClose
  \/ Disconnect
  \/ \E i \in Ids : Send(i)
  \/ \E c \in deferred : RetrySend(c)
  \/ \E c \in callTimers : CallTimeout(c)
  \/ GraceTimeout
  \/ \E data \in Chunks : OnMessage(data)

Spec == Init /\ [][Next]_vars

(***************************************************************************)
(* The provider with notification observers and reset().                    *)
(***************************************************************************)
ListenerChunks == {Reply(1), Notification("a", "r1"), <<LBrace>>}

NextListeners ==
  \/ OnOpen
  \/ OnClose
  \/ Disconnect
  \/ Reset
  \/ \E o \in Observers : On(o)
  \/ \E o \in Observers : RemoveListener(o)
  \/ RemoveAllListeners
  \/ \E i \in Ids : Send(i)
  \/ \E c \in deferred : RetrySend(c)
  \/ \E c \in callTimers : CallTimeout(c)
  \/ \E data \in ListenerChunks : OnMessage(data)

SpecListeners == Init /\ [][NextListeners]_vars

(***************************************************************************)
(* A Request Manager constructed over the provider: its constructor has     *)
(* registered its 'data' handler.                                           *)
(***************************************************************************)
ManagerChunks ==
  {Notification(s, r) : s \in SubIds, r \in Results}
    \cup {Notification("a", "r1") \o Notification("b", "r2"), Reply(1)}

InitManager ==
  /\ readyState = "CONNECTING"
  /\ connected = FALSE
  /\ optTimeout \in BOOLEAN
  /\ calls = <<>>
  /\ responseCallbacks = EmptyMap
  /\ callTimers = {}
  /\ deferred = {}
  /\ retries = 0
  /\ notificationCallbacks = <<RMListener>>
  /\ lastChunk = <<>>
  /\ lastChunkTimeout = FALSE
  /\ graceTimers = 0
  /\ subscriptions = EmptyMap
  /\ subscriptionKeys = <<>>
  /\ messageId = 0
  /\ managed = EmptyMap
  /\ hasOn = TRUE
  /\ hasReset = TRUE
  /\ jsonInterface = <<>>
  /\ address = ""
  /\ ret = NoReturn
  /\ listeners = <<>>
  /\ invoked = <<>>
  /\ out = <<>>
  /\ fired = <<>>
  /\ notified = <<>>
  /\ delivered = <<>>
  /\ txd = <<>>
  /\ raised = FALSE
  /\ rx = <<>>
  /\ settled = <<>>
  /\ fed = [n |-> 0, text |-> <<>>]

NextManager ==
  \/ OnOpen
  \/ OnClose
  \/ \E id \in SubIds, cb \in SubCallbacks : AddSubscription(id, "logs", "eth", cb)
  \/ \E id \in SubIds : RemoveSubscription(id)
  \/ \E c \in deferred : RetrySend(c)
  \/ \E c \in callTimers : CallTimeout(c)
  \/ \E data \in ManagerChunks : OnMessage(data)

SpecManager == InitManager /\ [][NextManager]_vars

(***************************************************************************)
(* Properties.                                                              *)
(***************************************************************************)
(* The provider's sends, retries and socket events.  The 10 ms timer of a   *)
(* deferred send fires sooner or later; nothing makes the socket leave      *)
(* CONNECTING.                                                              *)
(***************************************************************************)
NextRetry ==
  \/ OnOpen
  \/ OnError
  \/ OnClose
  \/ Disconnect
  \/ \E i \in Ids : Send(i)
  \/ \E c \in deferred : RetrySend(c)
  \/ \E c \in callTimers : CallTimeout(c)
  \/ \E i \in Ids : OnMessage(Reply(i))

SpecRetry ==
  Init /\ [][NextRetry]_vars /\ WF_vars(\E c \in deferred : RetrySend(c))

(***************************************************************************)
(* The provider fed whole documents run together in one chunk.  No         *)
(* per-call timeout is configured.                                          *)
(***************************************************************************)
ArrayReply(i) == <<LBrack>> \o Reply(i) \o <<RBrack>>
\* {"id":i,"result":"a}{b"}
BraceReply(i) == <<LBrace, Open(i), RBrace, LBrace, Close, RBrace>>
\* {"id":i,"result":"a|--|b"}
MarkerReply(i) == <<LBrace, Open(i), SEP, Close, RBrace>>

Docs == {Reply(1), ArrayReply(2), BraceReply(3), MarkerReply(4)}

DocSeqs == UNION {[1..n -> Docs] : n \in 1..MaxDocs}

\* the documents of q run together, with the text j at every boundary
RECURSIVE Join(_, _)
Join(q, j) ==
  IF Len(q) = 1 THEN q[1] ELSE q[1] \o j \o Join(Tail(q), j)

\* a chunk of whole documents, and the documents it is made of
DocTable == {[docs |-> q, text |-> Join(q, j)] : q \in DocSeqs, j \in {<<>>, <<NL>>}}

DocChunks == {r.text : r \in DocTable}

InitDechunk == Init /\ ~optTimeout

NextDechunk ==
  \/ OnOpen
  \/ Send(1)
  \/ \E data \in DocChunks : OnMessage(data)

SpecDechunk == InitDechunk /\ [][NextDechunk]_vars

(***************************************************************************)
(* The provider fed documents cut into pieces, each piece a chunk, and the  *)
(* 15 s timer.                                                              *)
(***************************************************************************)
SplitDocs == {Reply(1), ArrayReply(1), BraceReply(1), MarkerReply(1)}

PiecesOf(d) == UNION {{SubSeq(d, a, b) : b \in a..Len(d)} : a \in 1..Len(d)}

\* the proper pieces of the documents; the marker is never a chunk by itself
Pieces == UNION {PiecesOf(d) : d \in SplitDocs} \ (SplitDocs \cup {<<SEP>>})

NextSplit ==
  \/ OnOpen
  \/ Send(1)
  \/ GraceTimeout
  \/ \E data \in Pieces : OnMessage(data)

SpecSplit == InitDechunk /\ [][NextSplit]_vars

(***************************************************************************)
\* the ids a message carries
IdsOf(v) == {v.elems[k].id : k \in 1..Len(v.elems)} \ {0}

\* the invocations of call c's callback among f
Invocations(f, c) == {k \in 1..Len(f) : f[k].call = c}

InSeq(x, q) == \E k \in 1..Len(q) : q[k] = x

\* C1: id correlation.  When a chunk of replies arrives, in whatever order,
\* every callback invoked gets no error and a reply of the chunk that carries
\* the id its call is pending under, and that entry is removed; a pending
\* call whose id a reply object of the chunk has is invoked exactly once; a
\* pending call whose id no reply of the chunk carries is not invoked and
\* keeps its entry.
C1_IdCorrelation ==
  [][rx' # <<>> =>
       /\ \A k \in 1..Len(fired') :
            /\ fired'[k].error = "none"
            /\ InSeq(fired'[k].result, out')
            /\ \E i \in DOMAIN responseCallbacks :
                 /\ responseCallbacks[i].callback = fired'[k].call
                 /\ i \in IdsOf(fired'[k].result)
                 /\ i \notin DOMAIN responseCallbacks'
       /\ \A i \in DOMAIN responseCallbacks :
            LET c == responseCallbacks[i].callback IN
            /\ (\E k \in 1..Len(out') : ~out'[k].array /\ IdsOf(out'[k]) = {i})
                 => /\ Cardinality(Invocations(fired', c)) = 1
                    /\ i \notin DOMAIN responseCallbacks'
            /\ (\A k \in 1..Len(out') : i \notin IdsOf(out'[k]))
                 => /\ Invocations(fired', c) = {}
                    /\ i \in DOMAIN responseCallbacks'
                    /\ responseCallbacks'[i] = responseCallbacks[i]
  ]_vars

\* the call sent second is answered first, the call sent first stays pending
C1_Witness ==
  /\ Len(fired) = 1
  /\ fired[1].call = 2
  /\ fired[1].error = "none"
  /\ \E i \in DOMAIN responseCallbacks : responseCallbacks[i].callback = 1

\* what the notifications among msgs owe the subscriptions registered in subs
RECURSIVE Deliveries(_, _)
Deliveries(msgs, subs) ==
  IF msgs = <<>> THEN <<>>
  ELSE LET m == Head(msgs).elems[1] IN
       (IF ~Head(msgs).array /\ m.id = 0 /\ m.method = "eth_subscription"
           /\ m.sub \in DOMAIN subs
        THEN <<[callback |-> subs[m.sub].callback, error |-> "null", result |-> m.result]>>
        ELSE <<>>) \o Deliveries(Tail(msgs), subs)

\* C2: subscription lifecycle.  addSubscription registers the callback under
\* the id and removeSubscription unregisters it, each leaving the other ids
\* alone, and nothing else changes the registry; a chunk of notifications
\* invokes, for each notification in turn, the callback registered under its
\* params.subscription once with (null, params.result), and nothing for an id
\* that is not registered; no other step invokes a subscription callback.
C2_SubscriptionLifecycle ==
  [][/\ rx' # <<>> => /\ delivered' = Deliveries(out', subscriptions)
                       /\ subscriptions' = subscriptions
     /\ rx' = <<>> => delivered' = <<>>
     /\ \A id \in SubIds, cb \in SubCallbacks :
          AddSubscription(id, "logs", "eth", cb)
            => /\ id \in DOMAIN subscriptions'
               /\ subscriptions'[id].callback = cb
               /\ \A o \in SubIds \ {id} :
                    /\ o \in DOMAIN subscriptions' <=> o \in DOMAIN subscriptions
                    /\ o \in DOMAIN subscriptions => subscriptions'[o] = subscriptions[o]
     /\ \A id \in SubIds :
          RemoveSubscription(id)
            => /\ id \notin DOMAIN subscriptions'
               /\ \A o \in SubIds \ {id} :
                    /\ o \in DOMAIN subscriptions' <=> o \in DOMAIN subscriptions
                    /\ o \in DOMAIN subscriptions => subscriptions'[o] = subscriptions[o]
     /\ (/\ \A id \in SubIds : ~RemoveSubscription(id)
         /\ \A id \in SubIds, cb \in SubCallbacks : ~AddSubscription(id, "logs", "eth", cb))
          => subscriptions' = subscriptions
  ]_vars

\* "a" and "b" were added and "b" removed; a chunk with a notification for
\* each arrives and only the callback of "a" is invoked, with r1
C2_Witness ==
  /\ Len(out) = 2
  /\ "a" \in DOMAIN subscriptions
  /\ "b" \notin DOMAIN subscriptions
  /\ \E c \in 1..Len(calls) : calls[c].params = <<"b">>
  /\ delivered = <<[callback |-> subscriptions["a"].callback, error |-> "null",
                    result |-> "r1"]>>

HasMarker(text) == \E i \in 1..Len(text) : text[i] = SEP

\* C3: dechunking.  With an empty buffer, one chunk made of N whole
\* documents, run together at }{, }][{, }[{ or }]{ with or without a line
\* break between them, yields N messages, the k-th being the k-th document
\* (the same ids; the same value when the document holds no '|--|'), and
\* leaves the buffer empty and no 15 s timer scheduled.
C3_Dechunking ==
  [][(rx' # <<>> /\ lastChunk = <<>>) =>
       \A r \in DocTable :
         r.text = rx'[1] =>
           /\ Len(out') = Len(r.docs)
           /\ \A k \in 1..Len(r.docs) :
                LET v == Value(JsonParse(r.docs[k])) IN
                /\ out'[k].array = v.array
                /\ IdsOf(out'[k]) = IdsOf(v)
                /\ ~HasMarker(r.docs[k]) => out'[k] = v
           /\ lastChunk' = <<>>
           /\ ~lastChunkTimeout'
           /\ graceTimers' = 0
  ]_vars

\* three documents with a line break at }]{ and at }{ came as one chunk while
\* call 1 was pending: three messages, and call 1 answered by the second
C3_Witness ==
  /\ rx = <<Join(<<ArrayReply(2), Reply(1), BraceReply(3)>>, <<NL>>)>>
  /\ Len(out) = 3
  /\ Len(fired) = 1 /\ fired[1].result = out[2]
  /\ lastChunk = <<>>

IsProperPrefix(s, d) == Len(s) < Len(d) /\ SubSeq(d, 1, Len(s)) = s

\* C4: reassembly.  While the chunks received since the buffer was empty
\* (all within the 15 s) make up a proper prefix of a document, no message
\* comes out, no callback is invoked and the table is unchanged; when the
\* second or a later chunk completes the document, exactly one message comes
\* out, equal to the document, the buffer is cleared and no 15 s timer is
\* left scheduled.
C4_Reassembly ==
  [][(rx' # <<>> /\ fed'.n >= 1) =>
       /\ (\E doc \in SplitDocs : IsProperPrefix(fed'.text, doc))
            => /\ out' = <<>>
               /\ fired' = <<>>
               /\ responseCallbacks' = responseCallbacks
       /\ (fed'.n = 2 /\ fed'.text \in SplitDocs)
            => /\ out' = <<Value(JsonParse(fed'.text))>>
               /\ lastChunk' = <<>>
               /\ ~lastChunkTimeout'
               /\ graceTimers' = 0
  ]_vars

\* the same for the documents that hold no '|--|'
C4_ReassemblyUnmarked ==
  [][(rx' # <<>> /\ fed'.n >= 1) =>
       /\ (\E doc \in SplitDocs : IsProperPrefix(fed'.text, doc))
            => /\ out' = <<>>
               /\ fired' = <<>>
               /\ responseCallbacks' = responseCallbacks
       /\ (fed'.n = 2 /\ fed'.text \in SplitDocs /\ ~HasMarker(fed'.text))
            => /\ out' = <<Value(JsonParse(fed'.text))>>
               /\ lastChunk' = <<>>
               /\ ~lastChunkTimeout'
               /\ graceTimers' = 0
  ]_vars

\* every call pending before the step has its callback invoked once, with
\* the error e, and no entry is left
AllFailed(e) ==
  /\ \A i \in DOMAIN responseCallbacks :
       \E k \in 1..Len(fired') :
         /\ Invocations(fired', responseCallbacks[i].callback) = {k}
         /\ fired'[k].error = e
  /\ DOMAIN responseCallbacks' = {}

\* C5: the 15 s timer.  When it fires, every pending call is failed with an
\* error and removed, and the handler throws; at no time is more than one
\* such timer scheduled, and after a chunk whose last fragment did not parse
\* exactly one is, the one the provider holds the handle of.
C5_GraceTimer ==
  [][/\ raised' => /\ AllFailed("Connection error")
                   /\ Len(fired') = Cardinality(DOMAIN responseCallbacks)
     /\ graceTimers' <= 1
     /\ (rx' # <<>> /\ lastChunk' # <<>>) => (lastChunkTimeout' /\ graceTimers' = 1)
  ]_vars

\* the timer of a fragment nothing completed has fired with two calls pending
C5_Witness ==
  /\ raised
  /\ lastChunk # <<>>
  /\ Len(fired) = 2
  /\ fired[1].error = "Connection error" /\ fired[2].error = "Connection error"
  /\ DOMAIN responseCallbacks = {}

\* what C6 says of the send of call c
NotOpenSend(c) ==
  /\ \E k \in 1..Len(fired') :
       /\ Invocations(fired', c) = {k}
       /\ fired'[k].error = "connection not open"
  /\ txd' = <<>>
  /\ AllFailed("Connection error")
  /\ Len(fired') = Cardinality(DOMAIN responseCallbacks) + 1
  /\ c \notin deferred'

\* C6: a send on a connection that is neither CONNECTING nor OPEN invokes
\* the caller's callback once with 'connection not open', writes nothing to
\* the socket, registers nothing, and fails every pending call with
\* 'Connection error', leaving the table empty.
C6_SendNotOpen ==
  [][readyState \notin {"CONNECTING", "OPEN"} =>
       /\ \A i \in Ids : Send(i) => NotOpenSend(Len(calls) + 1)
       /\ \A c \in deferred : RetrySend(c) => NotOpenSend(c)
  ]_vars

\* call 2 was sent on a closing connection while call 1 was pending
C6_Witness ==
  /\ readyState = "CLOSING"
  /\ Len(calls) = 2
  /\ fired = <<[call |-> 1, error |-> "Connection error", result |-> NoValue],
               [call |-> 2, error |-> "connection not open", result |-> NoValue]>>
  /\ DOMAIN responseCallbacks = {}

\* C7, as amended: a send on a CONNECTING connection is neither failed nor
\* registered nor written to the socket, but deferred; each firing of its
\* 10 ms timer defers it again while the connection is CONNECTING (there is
\* no bound on how often), transmits and registers it when the connection
\* is OPEN, and otherwise fails it with 'connection not open'; once settled
\* it is never deferred again.
C7_DeferredSend ==
  [][/\ \A i \in Ids :
          (readyState = "CONNECTING" /\ Send(i))
            => /\ fired' = <<>> /\ txd' = <<>>
               /\ responseCallbacks' = responseCallbacks
               /\ (Len(calls) + 1) \in deferred'
     /\ \A c \in deferred :
          RetrySend(c)
            => CASE readyState = "CONNECTING" ->
                      /\ c \in deferred'
                      /\ fired' = <<>> /\ txd' = <<>>
                      /\ responseCallbacks' = responseCallbacks
                 [] readyState = "OPEN" ->
                      /\ c \notin deferred'
                      /\ fired' = <<>> /\ txd' = <<calls[c]>>
                      /\ calls[c].id \in DOMAIN responseCallbacks'
                      /\ responseCallbacks'[calls[c].id].callback = c
                 [] OTHER ->
                      /\ c \notin deferred'
                      /\ txd' = <<>>
                      /\ \E k \in 1..Len(fired') :
                           /\ Invocations(fired', c) = {k}
                           /\ fired'[k].error = "connection not open"
                      /\ \A i \in DOMAIN responseCallbacks' :
                           responseCallbacks'[i].callback # c
     /\ \A c \in 1..Len(calls) : c \notin deferred => c \notin deferred'
     /\ \A c \in deferred : c \notin deferred' => RetrySend(c)
  ]_vars

\* the only call was deferred, and a firing of its timer has transmitted it
C7_Witness ==
  /\ Len(calls) = 1
  /\ retries = 1
  /\ readyState = "OPEN"
  /\ txd = <<calls[1]>>
  /\ deferred = {}
  /\ DOMAIN responseCallbacks = {calls[1].id}

\* C7, as stated: the retries of a deferred send come to an end
C7_RetriesEnd ==
  \A c \in 1..MaxCalls : (c \in deferred) ~> (c \notin deferred)

\* C8: when the socket reports an error or closes, every pending call has
\* its callback invoked once, with 'Connection error', and the table is
\* empty afterwards.
C8_ErrorAndClose ==
  [][(OnError \/ OnClose) =>
       /\ AllFailed("Connection error")
       /\ Len(fired') = Cardinality(DOMAIN responseCallbacks)
  ]_vars

\* the socket closed with two calls pending
C8_Witness ==
  /\ readyState = "CLOSED"
  /\ ~raised
  /\ fired = <<[call |-> 1, error |-> "Connection error", result |-> NoValue],
               [call |-> 2, error |-> "Connection error", result |-> NoValue]>>
  /\ DOMAIN responseCallbacks = {}

\* C9: reset() fails every pending call with 'Connection error', empties
\* the table and the observer list, and leaves readyState and connected as
\* they are; a send on an OPEN connection, right after a reset as at any
\* other time, is written to the socket and registered.
C9_Reset ==
  [][/\ Reset => /\ AllFailed("Connection error")
                 /\ Len(fired') = Cardinality(DOMAIN responseCallbacks)
                 /\ notificationCallbacks' = <<>>
                 /\ readyState' = readyState
                 /\ connected' = connected
     /\ \A i \in Ids :
          (readyState = "OPEN" /\ Send(i))
            => /\ txd' = <<Payload(i, "eth_call", <<>>)>>
               /\ fired' = <<>>
               /\ i \in DOMAIN responseCallbacks'
               /\ responseCallbacks'[i].callback = Len(calls) + 1
  ]_vars

\* reset() has failed two pending calls on a connection that stays open
C9_Witness ==
  /\ readyState = "OPEN" /\ connected
  /\ ~raised
  /\ notificationCallbacks = <<>>
  /\ Len(fired) = 2
  /\ fired[1].error = "Connection error" /\ fired[2].error = "Connection error"
  /\ DOMAIN responseCallbacks = {}

\* C10: when options.timeout is set, the firing of the timer of a call that
\* is still pending invokes its callback with 'Connection timeout' and
\* removes its entry, whatever the dechunk buffer holds; the firing of the
\* timer of a call that was answered or failed before invokes no callback
\* and changes nothing; without options.timeout no callback ever gets
\* 'Connection timeout'.
C10_CallTimeout ==
  [][/\ \A c \in callTimers :
          CallTimeout(c)
            => IF \E i \in DOMAIN responseCallbacks : responseCallbacks[i].callback = c
               THEN /\ fired' = <<[call |-> c, error |-> "Connection timeout",
                                   result |-> NoValue]>>
                    /\ DOMAIN responseCallbacks' = DOMAIN responseCallbacks \ {calls[c].id}
                    /\ lastChunk' = lastChunk
               ELSE /\ fired' = <<>>
                    /\ responseCallbacks' = responseCallbacks
     /\ ~optTimeout => \A k \in 1..Len(fired') : fired'[k].error # "Connection timeout"
  ]_vars

(***************************************************************************)
(* The Request Manager over any provider: send hands the provider a payload *)
(* and a callback, and the provider calls back with an error, a response,   *)
(* both or neither.                                                         *)
(***************************************************************************)
\* an object with the given fields: h for an id field, i its value (0 is
\* the number 0), e the error field, j for a jsonrpc field, r the result
Response(i, h, e, j, r) ==
  [array |-> FALSE,
   elems |-> <<[M(i, "", "", r) EXCEPT !.hasId = h, !.error = e, !.jsonrpc = j]>>]

Responses ==
  {NoValue, [array |-> TRUE, elems |-> <<>>],
   [array |-> TRUE, elems |-> <<M(1, "", "", "r1")>>]}
    \cup {Response(i, i # 0 \/ z, e, j, r) :
            i \in 0..MaxId, z \in BOOLEAN, e \in {"", "e1"},
            j \in BOOLEAN, r \in {"", "r1"}}

Errors == {"none", "Connection error"}

\* RequestManager.send(data): provider.send(payload, callback); the provider
\* keeps the callback
ProviderSend(method) ==
  /\ Len(calls) < MaxCalls
  /\ \E payload \in {ToPayload(method, <<>>)} :
        /\ messageId' = payload.id
        /\ calls' = Append(calls, payload)
        /\ managed' = Put(managed, Len(calls) + 1, "send")
        /\ responseCallbacks' =
             Put(responseCallbacks, payload.id,
                 [callback |-> Len(calls) + 1, method |-> method])
  /\ Quiet
  /\ UNCHANGED <<socketVars, optTimeout, capVars, binderVars, retries, callTimers,
                 deferred, notificationCallbacks, chunkVars, subscriptions,
                 subscriptionKeys>>

\* the provider calls the callback it was handed for the request id
ProviderCallback(id, err, result) ==
  /\ id \in DOMAIN responseCallbacks
  /\ fired' = <<[call |-> responseCallbacks[id].callback, error |-> err,
                 result |-> result]>>
  /\ responseCallbacks' = Remove(responseCallbacks, id)
  /\ out' = <<>> /\ notified' = <<>> /\ delivered' = <<>> /\ txd' = <<>>
  /\ raised' = FALSE /\ rx' = <<>>
  /\ UNCHANGED <<socketVars, optTimeout, capVars, binderVars, retries, calls,
                 callTimers, deferred, notificationCallbacks, chunkVars, managerVars>>
  /\ Settle

NextSend ==
  \/ ProviderSend("eth_call")
  \/ \E id \in Ids, err \in Errors, result \in Responses :
        ProviderCallback(id, err, result)

SpecSend == Init /\ [][NextSend]_vars

\* the outcome the rules give, taken in order, for the request p and the
\* invocation f; an id counts from idCounts(response fields)
Expected(p, f, idCounts) ==
  LET r == Fields(f.result) IN
  IF f.error # "none" THEN Rejected(f.error, 0, 0, NoValue)
  ELSE IF f.result = NoValue THEN Rejected("No result.", 0, 0, NoValue)
  ELSE IF idCounts /\ r.id # p.id THEN Rejected("Wrong response id", r.id, p.id, NoValue)
  ELSE IF r.error # "" THEN Rejected("Returned error", 0, 0, f.result)
  ELSE IF f.result.array \/ ~r.jsonrpc \/ ~r.hasId \/ (r.result = "" /\ r.error = "")
    THEN Rejected("Invalid JSON RPC response", 0, 0, f.result)
  ELSE Resolved(r.result, NoValue)

\* C11: RequestManager.send settles its promise exactly once per invocation
\* of its callback, with the outcome of the first matching rule: transport
\* error, absent response, response id present and different from the
\* request id, error field, failed shape validation, otherwise the result.
C11_SettlementRules ==
  /\ Len(settled) = Len(fired)
  /\ \A k \in 1..Len(settled) :
       /\ settled[k].call = fired[k].call
       /\ settled[k].outcome =
            Expected(calls[fired[k].call], fired[k], Fields(fired[k].result).hasId)

\* the same with an id that counts only when it is truthy: not absent, and
\* not the number 0
C11_SettlementRulesTruthyId ==
  /\ Len(settled) = Len(fired)
  /\ \A k \in 1..Len(settled) :
       /\ settled[k].call = fired[k].call
       /\ settled[k].outcome =
            Expected(calls[fired[k].call], fired[k], Fields(fired[k].result).id # 0)

\* a response with the id 0 has been handed to the callback of request 1
C11_Witness ==
  /\ fired # <<>>
  /\ fired[1].error = "none"
  /\ Fields(fired[1].result).hasId
  /\ Fields(fired[1].result).id = 0
  /\ settled # <<>>
  /\ settled[1].outcome.state = "resolved"

(***************************************************************************)
(* The Request Manager over the WebsocketProvider, sending single requests  *)
(* and batches; the socket delivers whole documents.                        *)
(***************************************************************************)
MaxBatch == 2

BatchIds == 1..(MaxBatch + 1)

BatchChunks ==
  {Reply(i) : i \in BatchIds}
    \cup {BatchReply(i, j) : i, j \in BatchIds}
    \cup {ArrayReply(i) : i \in BatchIds}

Batches == UNION {[1..n -> {"eth_call"}] : n \in 1..MaxBatch}

NextBatch ==
  \/ OnOpen
  \/ OnClose
  \/ ManagerSend("eth_call")
  \/ \E methods \in Batches : ManagerSendBatch(methods)
  \/ \E c \in deferred : RetrySend(c)
  \/ \E c \in callTimers : CallTimeout(c)
  \/ \E data \in BatchChunks : OnMessage(data)

SpecBatch == InitManager /\ [][NextBatch]_vars

\* every settlement of a batch's promise: the transport's error, or
\* invalid-response for a reply that is no array, or the reply array as it is
BatchSettlements ==
  /\ Len(settled) = Len(fired)
  /\ \A k \in 1..Len(settled) :
       managed[settled[k].call] = "batch" =>
         LET f == fired[k]
             o == settled[k].outcome
         IN /\ settled[k].call = f.call
            /\ f.error # "none" => o.state = "rejected" /\ o.error = f.error
            /\ f.error = "none" /\ ~f.result.array =>
                 /\ o.state = "rejected"
                 /\ o.error = "Invalid JSON RPC response"
            /\ f.error = "none" /\ f.result.array =>
                 /\ o.state = "resolved"
                 /\ o.response.array
                 /\ o.response.elems = f.result.elems

\* the batches pending before the step, each under its id
PendingBatches ==
  {i \in DOMAIN responseCallbacks : managed[responseCallbacks[i].callback] = "batch"}

\* C12: sendBatch rejects with the transport's error, rejects with
\* invalid-response when the reply delivered for the batch is no array, and
\* otherwise resolves with the reply array unchanged; a reply array that
\* contains an element with the id the batch is pending under is delivered
\* to the batch's callback.
C12_SendBatch ==
  [][/\ BatchSettlements'
     /\ rx' # <<>> =>
          \A i \in PendingBatches :
            \A k \in 1..Len(out') :
              out'[k].array /\ i \in IdsOf(out'[k]) =>
                \E n \in 1..Len(fired') :
                  /\ fired'[n].call = responseCallbacks[i].callback
                  /\ fired'[n].result = out'[k]
  ]_vars

\* the same, the reply array being delivered to the callback pending under
\* the id of the last of its elements that names a pending call
C12_SendBatchLastMatch ==
  [][/\ BatchSettlements'
     /\ rx' # <<>> =>
          \A i \in PendingBatches :
            \A k \in 1..Len(out') :
              out'[k].array /\ MatchId(responseCallbacks, out'[k]) = i =>
                \E n \in 1..Len(fired') :
                  /\ fired'[n].call = responseCallbacks[i].callback
                  /\ fired'[n].result = out'[k]
  ]_vars

\* a batch has been resolved with the array the node replied
C12_Witness ==
  \E k \in 1..Len(settled) :
    /\ managed[settled[k].call] = "batch"
    /\ settled[k].outcome.state = "resolved"
    /\ Len(settled[k].outcome.response.elems) = 2

\* a batch has been rejected for a reply that is no array
C12_WitnessNoArray ==
  \E k \in 1..Len(settled) :
    /\ managed[settled[k].call] = "batch"
    /\ settled[k].outcome.error = "Invalid JSON RPC response"

(***************************************************************************)
(* The Request Manager's registry over a provider like the                  *)
(* WebsocketProvider, with or without a reset method.  Subscriptions of     *)
(* either namespace are added, removed one by one and cleared; the socket   *)
(* delivers replies and error replies.                                      *)
(***************************************************************************)
\* {"jsonrpc":"2.0","id":i,"error":{...}}
ErrorReply(i) == <<LBrace, [M(i, "", "", "") EXCEPT !.error = "e1"], RBrace>>

SubNames == {"logs", "syncing"}
SubTypes == {"eth", "shh"}

\* send(payload, callback) inside a handler that sends more than once: st
\* carries the table, the timers, and what has been invoked and written
SendIn(st, c, payload) ==
  IF readyState = "CONNECTING" THEN [st EXCEPT !.deferred = @ \cup {c}]
  ELSE IF readyState # "OPEN"
  THEN [st EXCEPT !.fired = @ \o TimeoutFired(st.rc)
                              \o <<[call |-> c, error |-> "connection not open",
                                    result |-> NoValue]>>,
                  !.rc = TimeoutTable(st.rc)]
  ELSE [st EXCEPT !.txd = Append(@, payload),
                  !.rc = Put(@, PayloadId(payload),
                             [callback |-> c, method |-> PayloadMethod(payload)]),
                  !.callTimers = IF optTimeout THEN @ \cup {c} ELSE @]

\* removeSubscription(id) inside clearSubscriptions, id registered
RemoveSubscriptionIn(st, id) ==
  LET payload == Payload(st.messageId + 1, UnsubscribeMethod(st.subscriptions[id].type),
                         <<id>>)
      c == Len(st.calls) + 1
  IN [SendIn(st, c, payload) EXCEPT
        !.messageId = payload.id,
        !.calls = Append(@, payload),
        !.managed = Put(@, c, "send"),
        !.subscriptions = Remove(@, id),
        !.subscriptionKeys = Without(@, {id})]

RECURSIVE RemoveSubscriptions(_, _)
RemoveSubscriptions(st, ids) ==
  IF ids = <<>> THEN st
  ELSE RemoveSubscriptions(RemoveSubscriptionIn(st, Head(ids)), Tail(ids))

\* clearSubscriptions that removes the subscriptions named syncing too
IsRemovedAlways(keepIsSyncing, name) == TRUE

\* !keepIsSyncing || name !== 'syncing'
IsRemoved(keepIsSyncing, name) == ~keepIsSyncing \/ name # "syncing"

\* clearSubscriptions(keepIsSyncing)
ClearSubscriptions(keepIsSyncing) ==
  LET ids == SelectSeq(subscriptionKeys,
                       LAMBDA id : IsRemoved(keepIsSyncing, subscriptions[id].name))
  IN
  /\ Len(calls) + Len(ids) <= MaxCalls
  /\ \E st \in {RemoveSubscriptions(
                  [rc |-> responseCallbacks, callTimers |-> callTimers,
                   deferred |-> deferred, fired |-> <<>>, txd |-> <<>>,
                   calls |-> calls, messageId |-> messageId, managed |-> managed,
                   subscriptions |-> subscriptions,
                   subscriptionKeys |-> subscriptionKeys], ids)} :
        /\ calls' = st.calls
        /\ messageId' = st.messageId
        /\ managed' = st.managed
        /\ subscriptions' = st.subscriptions
        /\ subscriptionKeys' = st.subscriptionKeys
        /\ callTimers' = st.callTimers
        /\ deferred' = st.deferred
        /\ txd' = st.txd
        /\ IF hasReset
           THEN /\ fired' = st.fired \o TimeoutFired(st.rc)
                /\ responseCallbacks' = TimeoutTable(st.rc)
                /\ notificationCallbacks' = <<>>
           ELSE /\ fired' = st.fired
                /\ responseCallbacks' = st.rc
                /\ UNCHANGED notificationCallbacks
  /\ out' = <<>> /\ notified' = <<>> /\ delivered' = <<>>
  /\ raised' = FALSE /\ rx' = <<>>
  /\ UNCHANGED <<socketVars, optTimeout, capVars, binderVars, retries, chunkVars>>
  /\ Settle

SubscriptionChunks == {Reply(1), ErrorReply(1)}

InitSubscriptions ==
  /\ readyState = "CONNECTING"
  /\ connected = FALSE
  /\ optTimeout = FALSE
  /\ calls = <<>>
  /\ responseCallbacks = EmptyMap
  /\ callTimers = {}
  /\ deferred = {}
  /\ retries = 0
  /\ notificationCallbacks = <<RMListener>>
  /\ lastChunk = <<>>
  /\ lastChunkTimeout = FALSE
  /\ graceTimers = 0
  /\ subscriptions = EmptyMap
  /\ subscriptionKeys = <<>>
  /\ messageId = 0
  /\ managed = EmptyMap
  /\ hasOn = TRUE
  /\ hasReset \in BOOLEAN
  /\ jsonInterface = <<>>
  /\ address = ""
  /\ ret = NoReturn
  /\ listeners = <<>>
  /\ invoked = <<>>
  /\ out = <<>>
  /\ fired = <<>>
  /\ notified = <<>>
  /\ delivered = <<>>
  /\ txd = <<>>
  /\ raised = FALSE
  /\ rx = <<>>
  /\ settled = <<>>
  /\ fed = [n |-> 0, text |-> <<>>]

NextSubscriptions ==
  \/ OnOpen
  \/ OnClose
  \/ \E id \in SubIds, name \in SubNames, type \in SubTypes :
        AddSubscription(id, name, type, 1)
  \/ \E id \in SubIds : RemoveSubscription(id)
  \/ \E keepIsSyncing \in BOOLEAN : ClearSubscriptions(keepIsSyncing)
  \/ \E c \in deferred : RetrySend(c)
  \/ \E data \in SubscriptionChunks : OnMessage(data)

SpecSubscriptions == InitSubscriptions /\ [][NextSubscriptions]_vars

\* the request that unsubscribes id from the namespace type
IsUnsubscribe(payload, type, id) ==
  /\ payload.method = IF type = "eth" THEN "eth_unsubscribe" ELSE "shh_unsubscribe"
  /\ payload.params = <<id>>
  /\ payload.batch = <<>>

\* C13: removeSubscription(id) on a registered id makes exactly one
\* <namespace>_unsubscribe request with params [id] (written to the socket
\* when the connection is open) and leaves the registry without an entry
\* for id and otherwise as it was, whatever the state of the connection; on
\* an id that is not registered it sends nothing and changes nothing.  No
\* outcome of a request puts an entry into the registry.
C13_RemoveSubscription ==
  [][/\ \A id \in SubIds :
          RemoveSubscription(id) =>
            IF id \in DOMAIN subscriptions
            THEN /\ Len(calls') = Len(calls) + 1
                 /\ SubSeq(calls', 1, Len(calls)) = calls
                 /\ IsUnsubscribe(calls'[Len(calls')], subscriptions[id].type, id)
                 /\ txd' = IF readyState = "OPEN" THEN <<calls'[Len(calls')]>> ELSE <<>>
                 /\ DOMAIN subscriptions' = DOMAIN subscriptions \ {id}
                 /\ \A o \in DOMAIN subscriptions' : subscriptions'[o] = subscriptions[o]
            ELSE /\ calls' = calls
                 /\ txd' = <<>>
                 /\ fired' = <<>>
                 /\ subscriptions' = subscriptions
                 /\ responseCallbacks' = responseCallbacks
                 /\ deferred' = deferred
                 /\ messageId' = messageId
     /\ settled' # <<>> => DOMAIN subscriptions' \subseteq DOMAIN subscriptions
  ]_vars

\* a subscription of the shh namespace was removed on a closed connection:
\* the request has failed and the entry is gone
C13_Witness ==
  /\ readyState = "CLOSED"
  /\ calls # <<>>
  /\ calls[Len(calls)].method = "shh_unsubscribe"
  /\ calls[Len(calls)].params = <<"a">>
  /\ "a" \notin DOMAIN subscriptions
  /\ settled # <<>>
  /\ settled[Len(settled)].call = Len(calls)
  /\ settled[Len(settled)].outcome.error = "connection not open"

\* the subscriptions clearSubscriptions(keep) is to keep
Kept(keep) == {id \in DOMAIN subscriptions : keep /\ subscriptions[id].name = "syncing"}

\* C14: after clearSubscriptions(keepSyncing) the registry holds exactly the
\* subscriptions named syncing that were registered before when keepSyncing
\* is true, and nothing when it is false; one unsubscribe request is made
\* for each removed subscription and none for a kept one; when the transport
\* has a reset it is run once: every call then pending is failed once with
\* 'Connection error', the table and the observer list are emptied; without
\* a reset the observer list is left alone.
C14_ClearSubscriptions ==
  [][\A keep \in BOOLEAN :
       ClearSubscriptions(keep) =>
         LET removed == DOMAIN subscriptions \ Kept(keep)
             new == SubSeq(calls', Len(calls) + 1, Len(calls'))
         IN /\ DOMAIN subscriptions' = Kept(keep)
            /\ \A id \in Kept(keep) : subscriptions'[id] = subscriptions[id]
            /\ SubSeq(calls', 1, Len(calls)) = calls
            /\ Len(new) = Cardinality(removed)
            /\ \A id \in removed :
                 Cardinality({k \in 1..Len(new) :
                                IsUnsubscribe(new[k], subscriptions[id].type, id)}) = 1
            /\ \A k \in 1..Len(new) : new[k].params[1] \in removed
            /\ hasReset =>
                 /\ responseCallbacks' = EmptyMap
                 /\ notificationCallbacks' = <<>>
                 /\ \A i \in DOMAIN responseCallbacks :
                      LET n == Invocations(fired', responseCallbacks[i].callback) IN
                      /\ Cardinality(n) = 1
                      /\ \A k \in n : fired'[k].error = "Connection error"
            /\ ~hasReset =>
                 /\ notificationCallbacks' = notificationCallbacks
                 /\ readyState = "OPEN" =>
                      /\ fired' = <<>>
                      /\ \A i \in DOMAIN responseCallbacks :
                           /\ i \in DOMAIN responseCallbacks'
                           /\ responseCallbacks'[i] = responseCallbacks[i]
  ]_vars

\* clearSubscriptions(true) has just removed a logs subscription and kept a
\* syncing one
C14_Witness ==
  /\ DOMAIN subscriptions = {"b"}
  /\ subscriptions["b"].name = "syncing"
  /\ calls # <<>>
  /\ calls[Len(calls)].params = <<"a">>
  /\ txd = <<calls[Len(calls)]>>
  /\ fired # <<>>
  /\ fired[1].error = "Connection error"
  /\ fired[1].call = Len(calls)
  /\ notificationCallbacks = <<>>

(***************************************************************************)
(* The Request Manager over a provider with or without an 'on' method: its  *)
(* constructor has registered its 'data' handler when there is one.         *)
(***************************************************************************)
\* supportsSubscriptions() that answers yes for every provider
SupportsSubscriptionsAlways == TRUE

\* supportsSubscriptions(): !!this.provider.on
SupportsSubscriptionsValue == hasOn

\* a caller's supportsSubscriptions()
SupportsSubscriptions ==
  /\ ret' = [op |-> "supportsSubscriptions", value |-> SupportsSubscriptionsValue]
  /\ Quiet
  /\ UNCHANGED <<socketVars, optTimeout, capVars, jsonInterface, address, retries,
                 tableVars, notificationCallbacks, chunkVars, managerVars>>

InitSupport ==
  /\ readyState = "CONNECTING"
  /\ connected = FALSE
  /\ optTimeout = FALSE
  /\ calls = <<>>
  /\ responseCallbacks = EmptyMap
  /\ callTimers = {}
  /\ deferred = {}
  /\ retries = 0
  /\ hasOn \in BOOLEAN
  /\ hasReset \in BOOLEAN
  /\ notificationCallbacks = IF hasOn THEN <<RMListener>> ELSE <<>>
  /\ lastChunk = <<>>
  /\ lastChunkTimeout = FALSE
  /\ graceTimers = 0
  /\ subscriptions = EmptyMap
  /\ subscriptionKeys = <<>>
  /\ messageId = 0
  /\ managed = EmptyMap
  /\ jsonInterface = <<>>
  /\ address = ""
  /\ ret = NoReturn
  /\ listeners = <<>>
  /\ invoked = <<>>
  /\ out = <<>>
  /\ fired = <<>>
  /\ notified = <<>>
  /\ delivered = <<>>
  /\ txd = <<>>
  /\ raised = FALSE
  /\ rx = <<>>
  /\ settled = <<>>
  /\ fed = [n |-> 0, text |-> <<>>]

NextSupport ==
  \/ SupportsSubscriptions
  \/ \E id \in SubIds, name \in SubNames, type \in SubTypes, callback \in SubCallbacks :
        AddSubscription(id, name, type, callback)

SpecSupport == InitSupport /\ [][NextSupport]_vars

\* C15: supportsSubscriptions() answers true exactly when addSubscription
\* succeeds.  Over a provider with 'on', addSubscription does not throw and
\* leaves under id the entry given, in place of any entry id had, the other
\* entries as they were and one key per entry; over a provider without
\* 'on' it throws and leaves the registry as it was.
C15_AddSubscription ==
  [][/\ SupportsSubscriptions => ret'.value = hasOn
     /\ \A id \in SubIds, name \in SubNames, type \in SubTypes, callback \in SubCallbacks :
          AddSubscription(id, name, type, callback) =>
            /\ raised' <=> ~SupportsSubscriptionsValue
            /\ IF hasOn
               THEN /\ ~raised'
                    /\ DOMAIN subscriptions' = DOMAIN subscriptions \cup {id}
                    /\ subscriptions'[id] =
                         [callback |-> callback, type |-> type, name |-> name]
                    /\ \A o \in DOMAIN subscriptions \ {id} :
                         subscriptions'[o] = subscriptions[o]
                    /\ Len(subscriptionKeys') = Cardinality(DOMAIN subscriptions')
                    /\ \A o \in DOMAIN subscriptions' : InSeq(o, subscriptionKeys')
               ELSE /\ raised'
                    /\ subscriptions' = subscriptions
                    /\ subscriptionKeys' = subscriptionKeys
  ]_vars

\* over a provider with 'on', the entry of a has been replaced
C15_Witness ==
  /\ hasOn
  /\ ~raised
  /\ DOMAIN subscriptions = {"a", "b"}
  /\ subscriptionKeys = <<"b", "a">>
  /\ subscriptions["a"].name = "syncing"
  /\ subscriptions["a"].callback = 2

\* over a provider without 'on', addSubscription has thrown
C15_WitnessUnsupported ==
  /\ ~hasOn
  /\ raised
  /\ subscriptions = EmptyMap

(***************************************************************************)
(* The Contract binder.  An interface entry is [type, name, inputs,         *)
(* anonymous]; an input is [name, type, indexed].  The tables built from    *)
(* the interface are object literals read by key; they are modelled as      *)
(* maps that start empty, for keys that are no members of Object.prototype. *)
(***************************************************************************)
MaxAbi == 3
MaxArgs == 3

\* an input of a function
Input == [name |-> "x", type |-> "uint256", indexed |-> FALSE]

\* the input lists of arity 0, 1, 2
InputLists == UNION {[1..n -> {Input}] : n \in 0..(MaxArgs - 1)}

\* the keys of the methods table: the name, 'name(types)' and the selector
NameKey(name) == [kind |-> "name", name |-> name, arity |-> 0]
FuncNameKey(method) ==
  [kind |-> "funcName", name |-> method.name, arity |-> Len(method.inputs)]
SignatureKey(method) ==
  [kind |-> "signature", name |-> method.name, arity |-> Len(method.inputs)]

\* executorFactory that forgets the overload it was given
ExecutorFactoryAlone(definition, nextOverload) == <<definition>>

\* executorFactory(definition, nextOverload): the callable made is the
\* definition it checks first, followed by those of the callable it falls
\* back on (none for no nextOverload)
ExecutorFactory(definition, nextOverload) == <<definition>> \o nextOverload

\* getMethods(contractDefinition) over the first n entries
RECURSIVE GetMethodsUpTo(_, _)
GetMethodsUpTo(contractDefinition, n) ==
  IF n = 0 THEN EmptyMap
  ELSE LET methods == GetMethodsUpTo(contractDefinition, n - 1)
           method == contractDefinition[n]
           func == ExecutorFactory(n, <<>>)
           named == IF NameKey(method.name) \notin DOMAIN methods
                    THEN Put(methods, NameKey(method.name), func)
                    ELSE Put(methods, NameKey(method.name),
                             ExecutorFactory(n, methods[NameKey(method.name)]))
       IN IF method.type # "function" THEN methods
          ELSE Put(Put(named, SignatureKey(method), func), FuncNameKey(method), func)

GetMethods(contractDefinition) ==
  GetMethodsUpTo(contractDefinition, Len(contractDefinition))

\* Contract.methods, built by the constructor
methods == GetMethods(jsonInterface)

\* the callable made by executorFactory, called with n arguments
RECURSIVE Execute(_, _)
Execute(callable, n) ==
  LET definition == jsonInterface[Head(callable)] IN
  IF address = ""
  THEN [threw |-> TRUE, error |-> "No contract address.", definition |-> 0,
        got |-> 0, expected |-> 0, name |-> ""]
  ELSE IF n # Len(definition.inputs)
  THEN IF Tail(callable) # <<>> THEN Execute(Tail(callable), n)
       ELSE [threw |-> TRUE, error |-> "Invalid number of parameters",
             definition |-> 0, got |-> n, expected |-> Len(definition.inputs),
             name |-> definition.name]
  ELSE [threw |-> FALSE, error |-> "", definition |-> Head(callable),
        got |-> 0, expected |-> 0, name |-> ""]

\* a caller's contract.methods[key](...args), n arguments
CallMethod(key, n) ==
  /\ key \in DOMAIN methods
  /\ ret' = [op |-> "call", key |-> key, args |-> n, outcome |-> Execute(methods[key], n)]
  /\ Quiet
  /\ UNCHANGED <<socketVars, optTimeout, capVars, jsonInterface, address, retries,
                 tableVars, notificationCallbacks, chunkVars, managerVars>>

MethodNames == {"f", "g"}

FunctionEntries ==
  {[type |-> t, name |-> name, inputs |-> i, anonymous |-> FALSE] :
     t \in {"function", "event"}, name \in MethodNames, i \in InputLists}

Addresses == {"", "0xc"}

\* a contract constructed over any interface of up to MaxAbi entries, with
\* or without an address
InitMethods ==
  /\ Init
  /\ optTimeout = FALSE

MethodKeys ==
  {NameKey(name) : name \in MethodNames}
    \cup {FuncNameKey(m) : m \in FunctionEntries}
    \cup {SignatureKey(m) : m \in FunctionEntries}

\* toChecksumAddress(inputAddressFormatter(address))
ToChecksumAddress(a) == IF a = "0xc" THEN "0xC" ELSE a

\* new Contract(eth, jsonInterface, address) over an interface from abis
Construct(abis) ==
  /\ ret = NoReturn
  /\ jsonInterface = <<>>
  /\ \E abi \in abis, a \in Addresses :
        /\ jsonInterface' = abi
        /\ address' = IF a # "" THEN ToChecksumAddress(a) ELSE ""
  /\ ret' = [op |-> "new"]
  /\ Quiet
  /\ UNCHANGED <<socketVars, optTimeout, capVars, retries, tableVars,
                 notificationCallbacks, chunkVars, managerVars>>

NextMethods ==
  \/ Construct(UNION {[1..n -> FunctionEntries] : n \in 1..MaxAbi})
  \/ \E key \in MethodKeys, n \in 0..MaxArgs : CallMethod(key, n)

SpecMethods == InitMethods /\ [][NextMethods]_vars

\* the function entries of the interface with the given name
EntriesNamed(name) ==
  {k \in 1..Len(jsonInterface) :
     jsonInterface[k].type = "function" /\ jsonInterface[k].name = name}

C16_WitnessError ==
  /\ ret.op = "call" /\ ret.key = NameKey("f") /\ ret.args = 3
  /\ address # ""
  /\ Cardinality(EntriesNamed("f")) = 2
  /\ ret.outcome.threw
  /\ ret.outcome.error = "Invalid number of parameters"

(***************************************************************************)
(* Receipt post-processing.  A raw log is [index, topic]: its place in the  *)
(* receipt and the event its first topic is the signature of.               *)
(***************************************************************************)
MaxLogs == 3

EventNames == {"Transfer", "Approval"}

EventEntries ==
  {[type |-> "event", name |-> name, inputs |-> <<>>, anonymous |-> FALSE] :
     name \in EventNames}

Topics == EventNames \cup {"other"}

\* the receipts' log lists: the k-th log has index k
LogLists ==
  UNION {{[k \in 1..n |-> [index |-> k, topic |-> f[k]]] : f \in [1..n -> Topics]} :
           n \in 0..MaxLogs}

\* decodeAnyEvent(jsonInterface, log): the name of the event of the
\* interface the log matches, "" when it matches none
DecodeAnyEvent(abi, log) ==
  [event |-> IF \E k \in 1..Len(abi) :
                  abi[k].type = "event" /\ abi[k].name = log.topic
             THEN log.topic ELSE "",
   raw |-> log]

\* the grouping that puts the new event first
GroupFirst(events, ev) == <<ev>> \o events

\* [...events, ev]
Group(events, ev) == events \o <<ev>>

\* the loop of receiptFormatter over the decoded events
RECURSIVE GroupEvents(_, _)
GroupEvents(receipt, decodedEvents) ==
  IF decodedEvents = <<>> THEN receipt
  ELSE LET ev == Head(decodedEvents)
           events == IF ev.event \in DOMAIN receipt.events
                     THEN receipt.events[ev.event] ELSE <<>>
       IN GroupEvents(
            IF ev.event # ""
            THEN [receipt EXCEPT !.events = Put(@, ev.event, Group(events, ev))]
            ELSE [receipt EXCEPT !.unnamedEvents = Group(@, ev)],
            Tail(decodedEvents))

\* receiptFormatter(receipt), receipt.logs an array or not
ReceiptFormatter(isArray, logs) ==
  /\ ret.op # "none"
  /\ ret' = [op |-> "receiptFormatter", isArray |-> isArray, logs |-> logs,
             receipt |->
               IF ~isArray
               THEN [hasLogs |-> TRUE, hasEvents |-> FALSE, events |-> EmptyMap,
                     unnamedEvents |-> <<>>]
               ELSE GroupEvents(
                      [hasLogs |-> FALSE, hasEvents |-> TRUE, events |-> EmptyMap,
                       unnamedEvents |-> <<>>],
                      [k \in 1..Len(logs) |-> DecodeAnyEvent(jsonInterface, logs[k])])]
  /\ Quiet
  /\ UNCHANGED <<socketVars, optTimeout, capVars, jsonInterface, address, retries,
                 tableVars, notificationCallbacks, chunkVars, managerVars>>

NextReceipt ==
  \/ Construct(UNION {[1..n -> EventEntries] : n \in 1..2})
  \/ \E logs \in LogLists : ReceiptFormatter(TRUE, logs)
  \/ ReceiptFormatter(FALSE, <<>>)

SpecReceipt == InitMethods /\ [][NextReceipt]_vars

\* the list of the output receipt under a name, "" for unnamedEvents
ListAt(receipt, name) ==
  IF name = "" THEN receipt.unnamedEvents ELSE receipt.events[name]

\* the positions of the output receipt
PlacesOf(receipt) ==
  {p \in (DOMAIN receipt.events \cup {""}) \X (1..MaxLogs) :
     p[2] <= Len(ListAt(receipt, p[1]))}

RECURSIVE SumLen(_, _)
SumLen(receipt, names) ==
  IF names = {} THEN 0
  ELSE LET name == CHOOSE y \in names : TRUE
       IN Len(ListAt(receipt, name)) + SumLen(receipt, names \ {name})

AsyncStep ==
  \/ OnOpen
  \/ OnError
  \/ OnClose
  \/ \E c \in callTimers : CallTimeout(c)
  \/ GraceTimeout
  \/ rx' # <<>>

\* C18: no failure escapes as an exception thrown from an asynchronous
\* context: no handler of a socket event and no timer ends by throwing, in
\* any sequence of sends, replies, malformed frames, timer expiries and
\* socket events.
C18_NoEscapingFailure == [][AsyncStep => ~raised']_vars

\* the promise of the request removeSubscription makes, which nobody holds,
\* is never rejected
C18_UnsubscribeNeverRejected ==
  \A k \in 1..Len(settled) :
    calls[settled[k].call].method \in {"eth_unsubscribe", "shh_unsubscribe"} =>
      settled[k].outcome.state # "rejected"

(***************************************************************************)
(* Notifications and messages nobody waits for: observers registered in any *)
(* order, calls pending, and the socket delivering replies, notifications,  *)
(* messages without id of another method or of none, messages with an id    *)
(* and the marker, an array of a notification, two notifications together.  *)
(***************************************************************************)
Object(m) == <<LBrace, m, RBrace>>

NotifyChunks ==
  {Reply(i) : i \in Ids}
    \cup {Notification("a", "r1"),
          Notification("a", "r1") \o Notification("b", "r2"),
          Notification("b", "r2") \o Reply(1),
          Object(M(0, "eth_call", "", "r1")),
          Object(M(0, "", "", "r1")),
          Object(M(MaxId, "eth_subscription", "a", "r1")),
          <<LBrack>> \o Notification("a", "r1") \o <<RBrack>>}

NextNotify ==
  \/ OnOpen
  \/ \E o \in Observers : On(o)
  \/ \E o \in Observers : RemoveListener(o)
  \/ \E i \in Ids : Send(i)
  \/ \E c \in deferred : RetrySend(c)
  \/ \E data \in NotifyChunks : OnMessage(data)

SpecNotify == InitDechunk /\ [][NextNotify]_vars

\* a completed message that carries no id and whose method has the marker
CarriesNotification(msg) ==
  /\ ~msg.array
  /\ ~msg.elems[1].hasId
  /\ msg.elems[1].method \in {"eth_subscription", "shh_subscription"}

\* a completed message one of whose ids a call is pending under
MatchesPending(msg, rc) == \E i \in DOMAIN rc : i \in IdsOf(msg)

\* one invocation per observer, in the order of the observers
ToEvery(observers, msg) ==
  [k \in 1..Len(observers) |-> [observer |-> observers[k], result |-> msg]]

RECURSIVE Owed(_, _)
Owed(observers, msgs) ==
  IF msgs = <<>> THEN <<>>
  ELSE (IF CarriesNotification(Head(msgs)) THEN ToEvery(observers, Head(msgs)) ELSE <<>>)
         \o Owed(observers, Tail(msgs))

C19_WitnessDropped ==
  /\ rx = <<Object(M(0, "eth_call", "", "r1"))>>
  /\ Len(out) = 1
  /\ notified = <<>> /\ fired = <<>>
  /\ DOMAIN responseCallbacks # {}
  /\ notificationCallbacks # <<>>

(***************************************************************************)
(* Event filters.  A filter value is one number or a list of alternatives;  *)
(* a topic is the event's signature, the encoding of a value, the list of   *)
(* encodings of the alternatives, null, or a topic the caller gave.         *)
(***************************************************************************)
FilterNumbers == {0, 1}

Scalar(n) == [list |-> FALSE, items |-> <<n>>]
Alternatives(s) == [list |-> TRUE, items |-> s]

FilterValues == {Scalar(n) : n \in FilterNumbers} \cup {Alternatives(<<0, 1>>)}

IndexedInput(name) == [name |-> name, type |-> "uint256", indexed |-> TRUE]
PlainInput(name) == [name |-> name, type |-> "uint256", indexed |-> FALSE]

FilterEntries ==
  {[type |-> "event", name |-> "Transfer", anonymous |-> anonymous,
    inputs |-> <<IndexedInput("a"), PlainInput("b"), IndexedInput("c")>>] :
     anonymous \in BOOLEAN}
    \cup {[type |-> "event", name |-> "Ping", anonymous |-> anonymous, inputs |-> <<>>] :
            anonymous \in BOOLEAN}

\* options.filter: values for some of the parameters a and c
Filters ==
  UNION {[S -> FilterValues] : S \in SUBSET {"a", "c"}}

NoTopics == [given |-> FALSE, list |-> <<>>]
GivenTopic(t) == [kind |-> "given", items |-> <<t>>]

OptionTopics ==
  {NoTopics, [given |-> TRUE, list |-> <<>>], [given |-> TRUE, list |-> <<GivenTopic("0xT")>>]}

EventOptions ==
  [filter : Filters, topics : OptionTopics, fromBlock : {"", "latest", "1"},
   toBlock : {"", "latest"}]

\* the pseudo-event of generateEventOptions
AllEvents == [type |-> "event", name |-> "ALLEVENTS", anonymous |-> FALSE, inputs |-> <<>>]

\* inputBlockNumberFormatter
InputBlockNumberFormatter(block) == IF block = "1" THEN "0x1" ELSE block

\* event.signature, set by getEnrichedAbiDefinition
EventSignature(event) == [kind |-> "signature", items |-> <<event.name>>]

\* abi.encodeParameter(type, v): the 32-byte word of v
EncodeParameter(type, v) == [type |-> type, word |-> v]

\* !value
NotValue(filter, name) ==
  \/ name \notin DOMAIN filter
  \/ ~filter[name].list /\ filter[name].items[1] = 0

\* name is not a key of the filter
NotSupplied(filter, name) == name \notin DOMAIN filter

\* the topic of the indexed input i
IndexedTopic(filter, i) ==
  IF NotValue(filter, i.name) THEN [kind |-> "null", items |-> <<>>]
  ELSE IF filter[i.name].list
  THEN [kind |-> "list",
        items |-> [k \in 1..Len(filter[i.name].items) |->
                     EncodeParameter(i.type, filter[i.name].items[k])]]
  ELSE [kind |-> "one", items |-> <<EncodeParameter(i.type, filter[i.name].items[1])>>]

IsIndexed(i) == i.indexed

IndexedTopics(event, filter) ==
  LET indexed == SelectSeq(event.inputs, IsIndexed)
  IN [k \in 1..Len(indexed) |-> IndexedTopic(filter, indexed[k])]

\* address.toLowerCase()
ToLowerCase(a) == IF a = "0xC" THEN "0xc" ELSE a

\* encodeEventABI(event, options)
EncodeEventABI(event, options) ==
  LET topics ==
        IF options.topics.given THEN options.topics.list
        ELSE (IF ~event.anonymous /\ event.name # "ALLEVENTS"
              THEN <<EventSignature(event)>> ELSE <<>>)
             \o (IF event.name # "ALLEVENTS"
                 THEN IndexedTopics(event, options.filter) ELSE <<>>)
  IN [fromBlock |-> InputBlockNumberFormatter(options.fromBlock),
      toBlock |-> InputBlockNumberFormatter(options.toBlock),
      hasTopics |-> options.topics.given \/ topics # <<>>,
      topics |-> topics,
      address |-> IF address # "" THEN ToLowerCase(address) ELSE ""]

\* jsonInterface.find(json => json.type === 'event' && json.name === eventName)
FindEvent(eventName) ==
  IF \E k \in 1..Len(jsonInterface) :
       jsonInterface[k].type = "event" /\ jsonInterface[k].name = eventName
  THEN <<jsonInterface[CHOOSE k \in 1..Len(jsonInterface) :
           /\ jsonInterface[k].type = "event" /\ jsonInterface[k].name = eventName
           /\ \A j \in 1..(k - 1) :
                ~(jsonInterface[j].type = "event" /\ jsonInterface[j].name = eventName)]>>
  ELSE <<>>

\* isAddress(this.address)
IsAddress(a) == a # ""

\* eventName.toLowerCase() === 'allevents'
IsAllEvents(eventName) == eventName \in {"allevents", "allEvents", "ALLEVENTS"}

\* what generateEventOptions(eventName, options) returns or throws: with no
\* event found, the message of the Error reads event.name of undefined
GenerateEventOptionsResult(eventName, options) ==
  LET found == IF IsAllEvents(eventName) THEN <<AllEvents>> ELSE FindEvent(eventName)
  IN IF found = <<>>
     THEN [op |-> "throw", error |-> "TypeError: Cannot read property 'name' of undefined"]
     ELSE IF ~IsAddress(address)
     THEN [op |-> "throw",
           error |-> "This contract object doesn't have address set yet, please set an address first."]
     ELSE [op |-> "generateEventOptions", event |-> found[1], options |-> options,
           params |-> EncodeEventABI(found[1], options)]

\* generateEventOptions(eventName, options): throws when the event is not
\* of the interface or the contract has no address
GenerateEventOptions(eventName, options) ==
  /\ ret.op # "none"
  /\ ret' = GenerateEventOptionsResult(eventName, options)
  /\ raised' = (ret'.op = "throw")
  /\ out' = <<>> /\ fired' = <<>> /\ notified' = <<>> /\ delivered' = <<>>
  /\ txd' = <<>> /\ rx' = <<>> /\ settled' = <<>> /\ invoked' = invoked
  /\ UNCHANGED <<socketVars, optTimeout, capVars, jsonInterface, address, retries,
                 tableVars, notificationCallbacks, chunkVars, managerVars>>

FilterEventNames == {"Transfer", "Ping", "allevents"}

NextFilters ==
  \/ Construct({<<entry>> : entry \in FilterEntries})
  \/ \E eventName \in FilterEventNames, options \in EventOptions :
        GenerateEventOptions(eventName, options)

SpecFilters == InitMethods /\ [][NextFilters]_vars

\* the topic the claim gives the indexed input i: the encoding of the value
\* supplied, the encodings of the alternatives supplied, null when there is
\* none; a value of 0 is counted as supplied unless truthy is set
ClaimedTopic(filter, i, truthy) ==
  IF (IF truthy THEN NotValue(filter, i.name) ELSE NotSupplied(filter, i.name)) THEN [kind |-> "null", items |-> <<>>]
  ELSE IF filter[i.name].list
  THEN [kind |-> "list",
        items |-> [k \in 1..Len(filter[i.name].items) |->
                     EncodeParameter(i.type, filter[i.name].items[k])]]
  ELSE [kind |-> "one", items |-> <<EncodeParameter(i.type, filter[i.name].items[1])>>]

ClaimedTopics(event, filter, truthy) ==
  LET indexed == SelectSeq(event.inputs, IsIndexed)
  IN <<EventSignature(event)>>
       \o [k \in 1..Len(indexed) |-> ClaimedTopic(filter, indexed[k], truthy)]

FilterTopics(truthy) ==
  ret.op = "generateEventOptions" =>
    /\ ret.options.topics.given =>
         ret.params.hasTopics /\ ret.params.topics = ret.options.topics.list
    /\ (~ret.options.topics.given /\ ret.event.name # "ALLEVENTS" /\ ~ret.event.anonymous) =>
         /\ ret.params.hasTopics
         /\ ret.params.topics = ClaimedTopics(ret.event, ret.options.filter, truthy)
    /\ (~ret.options.topics.given /\ ret.event.name = "ALLEVENTS") => ~ret.params.hasTopics

\* C20: explicit topics are used verbatim; otherwise the topics of a
\* non-anonymous event are [signature, t1..tk], ti for the i-th indexed
\* parameter in declaration order being the encoding of the value supplied
\* for it, or the encodings of the alternatives supplied, for every value
\* supplied, and null when none is supplied; for all-events the topics are
\* omitted.
C20_FilterTopics == FilterTopics(FALSE)

\* the same with a value of 0 counted as not supplied
C20_FilterTopicsTruthy == FilterTopics(TRUE)

\* a = 1 and c = one of 0, 1 on Transfer(a, b, c): signature, one encoding,
\* two encodings
C20_Witness ==
  /\ ret.op = "generateEventOptions"
  /\ ret.event.name = "Transfer" /\ ~ret.event.anonymous
  /\ ~ret.options.topics.given
  /\ DOMAIN ret.options.filter = {"a", "c"}
  /\ ret.options.filter["a"] = Scalar(1)
  /\ ret.options.filter["c"] = Alternatives(<<0, 1>>)
  /\ Len(ret.params.topics) = 3
  /\ ret.params.topics[2].kind = "one"
  /\ ret.params.topics[3].kind = "list"

(***************************************************************************)
(* Contract.on and Contract.once over the Request Manager.  A listener is   *)
(* the Subscription object the call makes: whether once made it, the id the *)
(* node gave (none before the reply to eth_subscribe), the number of the    *)
(* eth_subscribe call, and how often the caller's callback has run (2: more *)
(* than once).  The registry's callback of a listener is its number.        *)
(* Handlers that call back into the manager are computed on a record st of  *)
(* the variables they change.                                               *)
(***************************************************************************)
MaxListeners == 2

Listener(once, c) == [once |-> once, id |-> "", call |-> c, count |-> 0]

Now ==
  [rc |-> responseCallbacks, callTimers |-> callTimers, deferred |-> deferred,
   fired |-> <<>>, txd |-> <<>>, calls |-> calls, messageId |-> messageId,
   managed |-> managed, subscriptions |-> subscriptions,
   subscriptionKeys |-> subscriptionKeys, notified |-> <<>>, delivered |-> <<>>,
   listeners |-> listeners]

\* the variables take the values of st
Commit(st) ==
  /\ responseCallbacks' = st.rc
  /\ callTimers' = st.callTimers
  /\ deferred' = st.deferred
  /\ fired' = st.fired
  /\ txd' = st.txd
  /\ calls' = st.calls
  /\ messageId' = st.messageId
  /\ managed' = st.managed
  /\ subscriptions' = st.subscriptions
  /\ subscriptionKeys' = st.subscriptionKeys
  /\ notified' = st.notified
  /\ delivered' = st.delivered
  /\ listeners' = st.listeners
  /\ Settle

\* RequestManager.send({method, params}) inside a handler
ManagerSendIn(st, method, params) ==
  LET payload == Payload(st.messageId + 1, method, params)
      c == Len(st.calls) + 1
  IN [SendIn(st, c, payload) EXCEPT
        !.messageId = payload.id,
        !.calls = Append(@, payload),
        !.managed = Put(@, c, "send")]

\* Subscription.unsubscribe(): requestManager.removeSubscription(this.id),
\* and the object forgets its id
Unsubscribe(st, l) ==
  LET id == st.listeners[l].id
      removed == IF id \in DOMAIN st.subscriptions THEN RemoveSubscriptionIn(st, id) ELSE st
  IN [removed EXCEPT !.listeners[l].id = ""]

\* a wrapper of once that leaves the subscription in place
OnceKeeps(st, l) == st

\* the wrapper of once, before it calls the callback: sub.unsubscribe()
Once(st, l) == Unsubscribe(st, l)

\* the callback handed to on: the caller's, or once's wrapper around it
Callback(st, l) ==
  LET before == IF st.listeners[l].once THEN Once(st, l) ELSE st
  IN [before EXCEPT !.listeners[l].count = IF @ >= 2 THEN 2 ELSE @ + 1]

\* the Request Manager's 'data' handler, its callbacks being listeners
RMHandlerIn(st, result) ==
  LET m == result.elems[1] IN
  IF m.method # "" /\ m.sub \in DOMAIN st.subscriptions /\ st.subscriptions[m.sub].callback # 0
  THEN Callback([st EXCEPT !.delivered =
                             Append(@, [callback |-> st.subscriptions[m.sub].callback,
                                        error |-> "null", result |-> m.result])],
                st.subscriptions[m.sub].callback)
  ELSE st

RECURSIVE BroadcastIn(_, _, _)
BroadcastIn(st, observers, result) ==
  IF observers = <<>> THEN st
  ELSE LET told == [st EXCEPT !.notified =
                                Append(@, [observer |-> Head(observers), result |-> result])]
       IN BroadcastIn(IF Head(observers) = RMListener THEN RMHandlerIn(told, result) ELSE told,
                      Tail(observers), result)

\* onMessage's dispatch of one message
DispatchIn(st, result) ==
  LET id == MatchId(st.rc, result) IN
  IF id = 0 /\ IsNotification(result)
  THEN BroadcastIn(st, notificationCallbacks, result)
  ELSE IF id # 0 /\ id \in DOMAIN st.rc
  THEN [st EXCEPT !.fired = Append(@, [call |-> st.rc[id].callback, error |-> "none",
                                       result |-> result]),
                  !.rc = Remove(@, id)]
  ELSE st

RECURSIVE DispatchAllIn(_, _)
DispatchAllIn(st, results) ==
  IF results = <<>> THEN st
  ELSE DispatchAllIn(DispatchIn(st, Head(results)), Tail(results))

\* the listener whose eth_subscribe is call c, 0 for none
ListenerOf(ls, c) ==
  IF \E l \in 1..Len(ls) : ls[l].call = c
  THEN CHOOSE l \in 1..Len(ls) : ls[l].call = c
  ELSE 0

\* Subscription.subscribe's continuation of the promise of eth_subscribe:
\* resolved, the id is kept and the listener registered with
\* addSubscription(id, 'logs', 'eth', ...); rejected, the callback gets the
\* error
Subscribed(st, l, outcome) ==
  IF outcome.state = "resolved"
  THEN [st EXCEPT !.listeners[l].id = outcome.value,
                  !.subscriptions = Put(@, outcome.value,
                                        [callback |-> l, type |-> "eth", name |-> "logs"]),
                  !.subscriptionKeys = IF outcome.value \in DOMAIN st.subscriptions THEN @
                                       ELSE Append(@, outcome.value)]
  ELSE Callback(st, l)

\* the continuations of the promises the invocations st.fired[k..] settle,
\* run when the handler has returned
RECURSIVE Continuations(_, _)
Continuations(st, k) ==
  IF k > Len(st.fired) THEN st
  ELSE LET f == st.fired[k]
           l == ListenerOf(st.listeners, f.call)
           first == /\ Times(invoked, f.call) = 0
                    /\ \A j \in 1..(k - 1) : st.fired[j].call # f.call
       IN Continuations(
            IF l # 0 /\ first
            THEN Subscribed(st, l, SendCallback(st.calls[f.call], f.error, f.result))
            ELSE st,
            k + 1)

\* checkListener(type, event)
CheckListener(type, event) == event = type

\* contract.on(eventName, {}, callback) and contract.once(eventName, {},
\* callback) on a provider that has 'on'
ContractOn(eventName, once) ==
  /\ ret.op # "none"
  /\ Len(listeners) < MaxListeners
  /\ \E subOptions \in {GenerateEventOptionsResult(eventName,
                          [filter |-> EmptyMap, topics |-> NoTopics,
                           fromBlock |-> "", toBlock |-> ""])} :
       IF subOptions.op = "throw"
       THEN /\ ret' = subOptions
            /\ raised' = TRUE
            /\ out' = <<>> /\ fired' = <<>> /\ notified' = <<>> /\ delivered' = <<>>
            /\ txd' = <<>> /\ settled' = <<>> /\ invoked' = invoked
            /\ UNCHANGED <<tableVars, managerVars, listeners>>
       ELSE IF \/ CheckListener("newListener", subOptions.event.name)
               \/ CheckListener("removeListener", subOptions.event.name)
       THEN /\ ret' = [op |-> "throw", error |-> "reserved event name"]
            /\ raised' = TRUE
            /\ out' = <<>> /\ fired' = <<>> /\ notified' = <<>> /\ delivered' = <<>>
            /\ txd' = <<>> /\ settled' = <<>> /\ invoked' = invoked
            /\ UNCHANGED <<tableVars, managerVars, listeners>>
       ELSE /\ ret' = [op |-> IF once THEN "once" ELSE "on"]
            /\ raised' = FALSE
            /\ out' = <<>>
            /\ \E st \in {ManagerSendIn(
                            [Now EXCEPT !.listeners =
                                          Append(@, Listener(once, Len(calls) + 1))],
                            "eth_subscribe", <<"logs">>)} :
                 Commit(Continuations(st, 1))
  /\ rx' = <<>>
  /\ UNCHANGED <<socketVars, optTimeout, hasOn, hasReset, jsonInterface, address, retries,
                 notificationCallbacks, chunkVars>>

\* onMessage with the manager's handler calling listeners, and the
\* continuations that follow it
OnMessageContract(data) ==
  /\ readyState \in {"OPEN", "CLOSING"}
  /\ Len(lastChunk) <= MaxBuf
  /\ \E p \in {ParseResponse(data)} :
       /\ lastChunk' = p.lastChunk
       /\ lastChunkTimeout' = p.lastChunkTimeout
       /\ graceTimers' = p.graceTimers
       /\ out' = p.returnValues
       /\ fed' = Fed(data, p)
       /\ \E st \in {DispatchAllIn(Now, p.returnValues)} : Commit(Continuations(st, 1))
  /\ rx' = <<data>>
  /\ raised' = FALSE
  /\ UNCHANGED <<socketVars, optTimeout, hasOn, hasReset, binderVars, retries,
                 notificationCallbacks>>

\* the reply to eth_subscribe: the subscription's id
SubscribeReply(i, s) == Object(M(i, "", "", s))

ContractChunks ==
  {SubscribeReply(i, s) : i \in 1..(MaxListeners + 1), s \in SubIds}
    \cup {ErrorReply(1),
          Notification("a", "r1"),
          Notification("b", "r1"),
          Notification("a", "r1") \o Notification("a", "r2"),
          Notification("a", "r1") \o Notification("b", "r2")}

InitContract ==
  /\ InitSubscriptions
  /\ hasReset

ContractEventNames == {"Transfer", "allEvents", "Approval"}

NextContract ==
  \/ OnOpen
  \/ Construct({<<entry>> : entry \in EventEntries})
  \/ \E eventName \in ContractEventNames, once \in BOOLEAN : ContractOn(eventName, once)
  \/ \E c \in deferred : RetrySend(c)
  \/ \E data \in ContractChunks : OnMessageContract(data)

SpecContract == InitContract /\ [][NextContract]_vars

\* C21: the callback of a listener made by once runs for at most one
\* delivery, a log or an error; in the step of that delivery the listener is
\* unsubscribed (its registry entry removed, its id forgotten), so that the
\* later logs of the same chunk and of later chunks invoke nothing.
C21_Once ==
  [][\A l \in 1..Len(listeners') :
       listeners'[l].once =>
         /\ listeners'[l].count <= 1
         /\ (l <= Len(listeners) /\ listeners'[l].count > listeners[l].count) =>
              /\ listeners'[l].id = ""
              /\ \A id \in DOMAIN subscriptions' : subscriptions'[id].callback # l
  ]_vars

\* two logs of its subscription came in one chunk: the callback of the once
\* listener ran for the first only, and eth_unsubscribe was written
C21_Witness ==
  /\ Len(out) = 2
  /\ \E l \in 1..Len(listeners) :
       /\ listeners[l].once
       /\ listeners[l].count = 1
       /\ delivered = <<[callback |-> l, error |-> "null", result |-> "r1"]>>
  /\ \E k \in 1..Len(txd) : txd[k].method = "eth_unsubscribe"

\* the node refused eth_subscribe: the callback of the once listener got
\* the error
C21_WitnessError ==
  /\ rx = <<ErrorReply(1)>>
  /\ Len(listeners) >= 1
  /\ listeners[1].once /\ listeners[1].count = 1 /\ listeners[1].id = ""

(***************************************************************************)
(* inputTransactionFormatter, as its tests give it.  A text is the sequence *)
(* of its characters; a quantity is a number or a decimal text.             *)
(***************************************************************************)
Digits == <<"0", "1", "2", "3", "4", "5", "6", "7", "8", "9">>
LowerLetters ==
  <<"a", "b", "c", "d", "e", "f", "g", "h", "i", "j", "k", "l", "m",
    "n", "o", "p", "q", "r", "s", "t", "u", "v", "w", "x", "y", "z">>
UpperLetters ==
  <<"A", "B", "C", "D", "E", "F", "G", "H", "I", "J", "K", "L", "M",
    "N", "O", "P", "Q", "R", "S", "T", "U", "V", "W", "X", "Y", "Z">>

IndexOf(s, c) == CHOOSE k \in 1..Len(s) : s[k] = c
Has(s, c) == \E k \in 1..Len(s) : s[k] = c

\* String.prototype.toLowerCase
LowerCase(s) ==
  [k \in 1..Len(s) |->
     IF Has(UpperLetters, s[k]) THEN LowerLetters[IndexOf(UpperLetters, s[k])] ELSE s[k]]

\* the value of a digit in base 36 (and so in base 10 and in base 16)
DigitValue(c) ==
  IF Has(Digits, c) THEN IndexOf(Digits, c) - 1
  ELSE 9 + IndexOf(LowerLetters, LowerCase(<<c>>)[1])

\* the digit of a value below 16
HexDigit(d) == (Digits \o LowerLetters)[d + 1]

Num(n) == [kind |-> "number", n |-> n]
Dec(s) == [kind |-> "string", text |-> s]

RECURSIVE ParseDecimal(_)
ParseDecimal(s) ==
  IF s = <<>> THEN 0
  ELSE 10 * ParseDecimal(SubSeq(s, 1, Len(s) - 1)) + DigitValue(s[Len(s)])

\* the integer of a quantity
ToNumber(v) == IF v.kind = "number" THEN v.n ELSE ParseDecimal(v.text)

RECURSIVE BaseDigits(_, _)
BaseDigits(n, base) ==
  IF n = 0 THEN <<>> ELSE BaseDigits(n \div base, base) \o <<HexDigit(n % base)>>

\* a conversion that writes the decimal digits after 0x
NumberToHexDecimal(v) ==
  <<"0", "x">> \o (IF ToNumber(v) = 0 THEN <<"0">> ELSE BaseDigits(ToNumber(v), 10))

\* numberToHex(value)
NumberToHex(v) ==
  <<"0", "x">> \o (IF ToNumber(v) = 0 THEN <<"0">> ELSE BaseDigits(ToNumber(v), 16))

AddressDigits == 40

\* the number ds (hex digits, the least significant first) times m plus a,
\* in as many digits
RECURSIVE MulAdd(_, _, _)
MulAdd(ds, m, a) ==
  IF ds = <<>> THEN <<>>
  ELSE LET x == Head(ds) * m + a
       IN <<x % 16>> \o MulAdd(Tail(ds), m, x \div 16)

RECURSIVE FromBase36(_, _)
FromBase36(s, acc) ==
  IF s = <<>> THEN acc
  ELSE FromBase36(Tail(s), MulAdd(acc, 36, DigitValue(Head(s))))

\* Iban.toAddress(): the base 36 number after the country code and the
\* check digits, as 40 hex digits
IbanToAddress(iban) ==
  LET ds == FromBase36(SubSeq(iban, 5, Len(iban)), [k \in 1..AddressDigits |-> 0])
  IN [k \in 1..AddressDigits |-> HexDigit(ds[AddressDigits + 1 - k])]

IsIban(a) == Len(a) > 4 /\ a[1] = "X" /\ a[2] = "E"

Strip0x(a) ==
  IF Len(a) >= 2 /\ a[1] = "0" /\ a[2] \in {"x", "X"} THEN SubSeq(a, 3, Len(a)) ELSE a

\* inputAddressFormatter(address)
InputAddressFormatter(a) ==
  <<"0", "x">> \o (IF IsIban(a) THEN IbanToAddress(a) ELSE LowerCase(Strip0x(a)))

QuantityFields == {"value", "nonce", "gas", "gasPrice"}
AddressFields == {"from", "to"}

\* inputTransactionFormatter(options)
InputTransactionFormatter(options) ==
  [f \in DOMAIN options |->
     IF f \in QuantityFields THEN NumberToHex(options[f])
     ELSE IF f \in AddressFields THEN InputAddressFormatter(options[f])
     ELSE options[f]]

\* the texts of the tests
TestData == <<"0", "x", "3", "4", "2", "3", "4", "b", "f", "2", "3", "b", "f",
    "4", "2", "3", "4">>
ChecksumAddress ==
  <<"0", "x", "1", "1", "f", "4", "d", "0", "A", "3", "c", "1", "2",
    "e", "8", "6", "B", "4", "b", "5", "F", "3", "9", "B", "2", "1", "3",
    "F", "7", "E", "1", "9", "D", "0", "4", "8", "2", "7", "6", "D", "A",
    "e">>
LowerAddress ==
  <<"0", "x", "1", "1", "f", "4", "d", "0", "a", "3", "c", "1", "2",
    "e", "8", "6", "b", "4", "b", "5", "f", "3", "9", "b", "2", "1", "3",
    "f", "7", "e", "1", "9", "d", "0", "4", "8", "2", "7", "6", "d", "a",
    "e">>
BareAddress ==
  <<"0", "0", "c", "5", "4", "9", "6", "a", "e", "e", "7", "7", "c",
    "1", "b", "a", "1", "f", "0", "8", "5", "4", "2", "0", "6", "a", "2",
    "6", "d", "d", "a", "8", "2", "a", "8", "1", "d", "6", "d", "8">>
PrefixedAddress == <<"0", "x">> \o BareAddress
IbanAddress ==
  <<"X", "E", "7", "3", "3", "8", "O", "0", "7", "3", "K", "Y", "G",
    "T", "W", "W", "Z", "N", "0", "F", "2", "W", "Z", "0", "R", "8", "P",
    "X", "5", "Z", "P", "P", "Z", "S">>

Field(name, v) == [x \in {name} |-> v]

\* the five tests: input and expected result
TransactionTests ==
  <<[input |-> Field("data", TestData) @@ Field("value", Dec(<<"1", "0", "0">>))
                 @@ Field("from", ChecksumAddress) @@ Field("to", LowerAddress)
                 @@ Field("nonce", Num(1000)) @@ Field("gas", Num(1000))
                 @@ Field("gasPrice", Dec(<<"1", "0", "0", "0">>)),
     result |-> Field("data", TestData) @@ Field("value", <<"0", "x", "6", "4">>)
                 @@ Field("from", LowerAddress) @@ Field("to", LowerAddress)
                 @@ Field("nonce", <<"0", "x", "3", "e", "8">>)
                 @@ Field("gas", <<"0", "x", "3", "e", "8">>)
                 @@ Field("gasPrice", <<"0", "x", "3", "e", "8">>)],
    [input |-> Field("data", TestData) @@ Field("value", Dec(<<"1", "0", "0">>))
                 @@ Field("from", BareAddress) @@ Field("to", ChecksumAddress),
     result |-> Field("data", TestData) @@ Field("value", <<"0", "x", "6", "4">>)
                 @@ Field("from", PrefixedAddress) @@ Field("to", LowerAddress)],
    [input |-> Field("data", TestData) @@ Field("value", Dec(<<"1", "0", "0">>))
                 @@ Field("from", BareAddress) @@ Field("to", BareAddress)
                 @@ Field("gas", Dec(<<"1", "0", "0", "0">>))
                 @@ Field("gasPrice", Dec(<<"1", "0", "0", "0">>)),
     result |-> Field("data", TestData) @@ Field("value", <<"0", "x", "6", "4">>)
                 @@ Field("from", PrefixedAddress) @@ Field("to", PrefixedAddress)
                 @@ Field("gas", <<"0", "x", "3", "e", "8">>)
                 @@ Field("gasPrice", <<"0", "x", "3", "e", "8">>)],
    [input |-> Field("data", TestData) @@ Field("value", Dec(<<"1", "0", "0">>))
                 @@ Field("from", IbanAddress) @@ Field("to", IbanAddress)
                 @@ Field("gas", Dec(<<"1", "0", "0", "0">>))
                 @@ Field("gasPrice", Dec(<<"1", "0", "0", "0">>)),
     result |-> Field("data", TestData) @@ Field("value", <<"0", "x", "6", "4">>)
                 @@ Field("from", PrefixedAddress) @@ Field("to", PrefixedAddress)
                 @@ Field("gas", <<"0", "x", "3", "e", "8">>)
                 @@ Field("gasPrice", <<"0", "x", "3", "e", "8">>)],
    [input |-> Field("data", TestData) @@ Field("value", Dec(<<"1", "0", "0">>))
                 @@ Field("from", IbanAddress)
                 @@ Field("gas", Dec(<<"1", "0", "0", "0">>))
                 @@ Field("gasPrice", Dec(<<"1", "0", "0", "0">>)),
     result |-> Field("data", TestData) @@ Field("value", <<"0", "x", "6", "4">>)
                 @@ Field("from", PrefixedAddress)
                 @@ Field("gas", <<"0", "x", "3", "e", "8">>)
                 @@ Field("gasPrice", <<"0", "x", "3", "e", "8">>)]>>

\* the inputs: the field to present or not, the quantities as numbers and
\* as decimal texts, the addresses in every form the tests have
AddressForms == {ChecksumAddress, LowerAddress, BareAddress, PrefixedAddress, IbanAddress}

Optional(name, values) == {EmptyMap} \cup {Field(name, v) : v \in values}

QuantityInputs ==
  {EmptyMap,
   Field("gas", Dec(<<"1", "0", "0", "0">>)) @@ Field("gasPrice", Dec(<<"1", "0", "0", "0">>)),
   Field("nonce", Num(1000)) @@ Field("gas", Num(1000))
     @@ Field("gasPrice", Dec(<<"1", "0", "0", "0">>)),
   Field("gas", Num(0)),
   Field("nonce", Num(255)) @@ Field("gas", Dec(<<"4", "0", "9", "6">>))}

TransactionInputs ==
  {Field("data", TestData) @@ Field("value", value) @@ Field("from", from)
     @@ to @@ quantities :
     value \in {Num(100), Dec(<<"1", "0", "0">>)},
     from \in AddressForms,
     to \in Optional("to", AddressForms),
     quantities \in QuantityInputs}

\* every input with what the formatter returns for it
FormattedTransactions ==
  {[op |-> "inputTransactionFormatter", input |-> options,
    output |-> InputTransactionFormatter(options)] : options \in TransactionInputs}

\* a caller formats the transaction options
FormatTransaction(options) ==
  /\ ret' \in {r \in FormattedTransactions : r.input = options}
  /\ Quiet
  /\ UNCHANGED <<socketVars, optTimeout, capVars, jsonInterface, address, retries,
                 tableVars, notificationCallbacks, chunkVars, managerVars>>

NextFormatter == \E options \in TransactionInputs : FormatTransaction(options)

SpecFormatter == InitMethods /\ [][NextFormatter]_vars

\* the integer a 0x text of lower-case hex digits stands for
RECURSIVE HexValue(_)
HexValue(s) ==
  IF s = <<>> THEN 0
  ELSE 16 * HexValue(SubSeq(s, 1, Len(s) - 1)) + DigitValue(s[Len(s)])

IsLowerHex(s) == \A k \in 1..Len(s) : Has(Digits, s[k]) \/ Has(SubSeq(LowerLetters, 1, 6), s[k])

\* the account an address text of the tests names, in the form the tests
\* expect of the result
AccountOf(a) ==
  IF a \in {ChecksumAddress, LowerAddress} THEN LowerAddress ELSE PrefixedAddress

\* C22: inputTransactionFormatter returns exactly the fields of its input:
\* value, nonce, gas and gasPrice, number or decimal text, as the 0x text of
\* the lower-case hex of the same integer (100 -> 0x64, 1000 -> 0x3e8); from
\* and to, checksummed, bare or IBAN, as 0x and the 40 lower-case hex digits
\* of the same account; data as it was; and it returns what each of the
\* five tests expects.
C22_InputTransactionFormatter ==
  ret.op = "inputTransactionFormatter" =>
    LET input == ret.input
        output == ret.output
    IN /\ DOMAIN output = DOMAIN input
       /\ output["data"] = input["data"]
       /\ \A f \in DOMAIN input \cap QuantityFields :
            /\ SubSeq(output[f], 1, 2) = <<"0", "x">>
            /\ Len(output[f]) > 2
            /\ IsLowerHex(SubSeq(output[f], 3, Len(output[f])))
            /\ HexValue(SubSeq(output[f], 3, Len(output[f]))) = ToNumber(input[f])
            /\ ToNumber(input[f]) = 100 => output[f] = <<"0", "x", "6", "4">>
            /\ ToNumber(input[f]) = 1000 => output[f] = <<"0", "x", "3", "e", "8">>
       /\ \A f \in DOMAIN input \cap AddressFields :
            /\ SubSeq(output[f], 1, 2) = <<"0", "x">>
            /\ Len(output[f]) = 2 + AddressDigits
            /\ IsLowerHex(SubSeq(output[f], 3, Len(output[f])))
            /\ output[f] = AccountOf(input[f])
       /\ \A t \in 1..Len(TransactionTests) :
            input = TransactionTests[t].input => output = TransactionTests[t].result

\* the fourth test: both addresses in IBAN form, no nonce
C22_Witness ==
  /\ ret.op = "inputTransactionFormatter"
  /\ ret.input = TransactionTests[4].input
  /\ ret.output = TransactionTests[4].result
  /\ "nonce" \notin DOMAIN ret.output

(***************************************************************************)
(* The dechunker as a two-state machine.                                    *)
(***************************************************************************)
\* no buffer and no timer
Idle == lastChunk = <<>> /\ graceTimers = 0

\* a partial fragment in the buffer and its timer scheduled
Buffering == lastChunk # <<>> /\ graceTimers > 0

\* C23: in every reachable state the 15 s timer is scheduled if and only if
\* a non-empty partial fragment is buffered: the dechunker is Idle or
\* Buffering, after a parse success, after a parse failure, after an empty
\* or non-text frame, and after the timer has fired.
C23_TimerIffBuffer == Idle \/ Buffering

\* the same of the state after a message event whose text is not empty
C23_TimerIffBufferAfterText ==
  [][(rx' # <<>> /\ rx'[1] # <<>>) => (Idle' \/ Buffering')]_vars

\* an empty frame has scheduled the timer over an empty buffer
C23_WitnessEmptyFrame == rx = <<<<>>>> /\ lastChunk = <<>> /\ graceTimers > 0

\* the timer has fired and the fragment is still buffered
C23_WitnessFired == raised /\ lastChunk # <<>> /\ graceTimers = 0

(***************************************************************************)
(* Callbacks that call back into the provider.  A callback handed to        *)
(* send() is the caller's code: the first time it is invoked it may call    *)
(* send, reset or disconnect of the provider before it returns.  The        *)
(* handlers are computed on a record st of the variables they change; does  *)
(* is what every callback invoked in the step does on its first invocation. *)
(***************************************************************************)
NoCall == [op |-> "none", id |-> 0]
CallsReset == [op |-> "reset", id |-> 0]
CallsDisconnect == [op |-> "disconnect", id |-> 0]
CallsSend(i) == [op |-> "send", id |-> i]

Reentries == {NoCall, CallsReset, CallsDisconnect} \cup {CallsSend(i) : i \in Ids}

Here ==
  [rc |-> responseCallbacks, callTimers |-> callTimers, deferred |-> deferred,
   fired |-> <<>>, txd |-> <<>>, calls |-> calls, readyState |-> readyState,
   observers |-> notificationCallbacks, notified |-> <<>>]

\* whether the callback of call c has not been invoked before
FirstInvocation(st, c) ==
  /\ Times(invoked, c) = 0
  /\ \A j \in 1..Len(st.fired) : st.fired[j].call # c

RECURSIVE InvokeCallback(_, _, _, _, _)
RECURSIVE TimeoutIn(_, _, _)

\* delete responseCallbacks[id] followed by the callback
DeleteThenInvoke(st, id, error, result, does) ==
  InvokeCallback([st EXCEPT !.rc = Remove(@, id)], st.rc[id].callback, error, result, does)

\* responseCallbacks[id].callback(...) followed by delete
\* responseCallbacks[id]: the entry is in the table while the callback runs
InvokeThenDelete(st, id, error, result, does) ==
  [InvokeCallback(st, st.rc[id].callback, error, result, does) EXCEPT !.rc = Remove(@, id)]

\* timeout() over the keys the for-in loop has still to visit
TimeoutIn(st, keys, does) ==
  IF keys = <<>> THEN st
  ELSE TimeoutIn(IF Head(keys) \in DOMAIN st.rc
                 THEN InvokeThenDelete(st, Head(keys), "Connection error", NoValue, does)
                 ELSE st,
                 Tail(keys), does)

\* send(payload, callback) called by a callback, as call Len(st.calls) + 1
ReentrantSend(st, i, does) ==
  LET payload == Payload(i, "eth_call", <<>>)
      c == Len(st.calls) + 1
      called == [st EXCEPT !.calls = Append(@, payload)]
  IN IF st.readyState = "CONNECTING"
     THEN [called EXCEPT !.deferred = @ \cup {c}]
     ELSE IF st.readyState # "OPEN"
     THEN InvokeCallback(TimeoutIn(called, Ascending(DOMAIN st.rc), does),
                         c, "connection not open", NoValue, does)
     ELSE [called EXCEPT !.txd = Append(@, payload),
                         !.rc = Put(@, i, [callback |-> c, method |-> "eth_call"]),
                         !.callTimers = IF optTimeout THEN @ \cup {c} ELSE @]

\* what the callback does before it returns
Reenter(st, does) ==
  IF does.op = "reset"
  THEN [TimeoutIn(st, Ascending(DOMAIN st.rc), does) EXCEPT !.observers = <<>>]
  ELSE IF does.op = "disconnect"
  THEN [st EXCEPT !.readyState = IF @ \in {"CONNECTING", "OPEN"} THEN "CLOSING" ELSE @]
  ELSE IF does.op = "send" /\ Len(st.calls) < MaxCalls /\ does.id \notin DOMAIN st.rc
  THEN ReentrantSend(st, does.id, does)
  ELSE st

\* the callback of call c is invoked and runs to its end
InvokeCallback(st, c, error, result, does) ==
  LET told == [st EXCEPT !.fired = Append(@, [call |-> c, error |-> error,
                                              result |-> result])]
  IN IF FirstInvocation(st, c) THEN Reenter(told, does) ELSE told

\* onMessage's dispatch of one message
DispatchReentrant(st, result, does) ==
  LET id == MatchId(st.rc, result) IN
  IF id = 0 /\ IsNotification(result)
  THEN [st EXCEPT !.notified =
                    @ \o [k \in 1..Len(st.observers) |->
                            [observer |-> st.observers[k], result |-> result]]]
  ELSE IF id # 0 /\ id \in DOMAIN st.rc
  THEN InvokeThenDelete(st, id, "none", result, does)
  ELSE st

RECURSIVE DispatchAllReentrant(_, _, _)
DispatchAllReentrant(st, results, does) ==
  IF results = <<>> THEN st
  ELSE DispatchAllReentrant(DispatchReentrant(st, Head(results), does), Tail(results), does)

\* the variables take the values of st
CommitReentrant(st) ==
  /\ responseCallbacks' = st.rc
  /\ callTimers' = st.callTimers
  /\ deferred' = st.deferred
  /\ fired' = st.fired
  /\ txd' = st.txd
  /\ calls' = st.calls
  /\ readyState' = st.readyState
  /\ notificationCallbacks' = st.observers
  /\ notified' = st.notified
  /\ delivered' = <<>>
  /\ Settle

\* onMessage, the callbacks it invokes doing does
OnMessageReentrant(data, does) ==
  /\ UNCHANGED <<connected, optTimeout, capVars, binderVars, retries, managerVars>>
  /\ readyState \in {"OPEN", "CLOSING"}
  /\ Len(lastChunk) <= MaxBuf
  /\ \E p \in {ParseResponse(data)} :
       /\ lastChunk' = p.lastChunk
       /\ lastChunkTimeout' = p.lastChunkTimeout
       /\ graceTimers' = p.graceTimers
       /\ out' = p.returnValues
       /\ fed' = Fed(data, p)
       /\ \E st \in {DispatchAllReentrant(Here, p.returnValues, does)} : CommitReentrant(st)
  /\ rx' = <<data>>
  /\ raised' = FALSE

\* onError, the callbacks it invokes doing does
OnErrorReentrant(does) ==
  /\ UNCHANGED <<connected, optTimeout, capVars, binderVars, retries, chunkVars, managerVars>>
  /\ readyState \in {"CONNECTING", "OPEN"}
  /\ \E st \in {TimeoutIn([Here EXCEPT !.readyState = "CLOSING"],
                          Ascending(DOMAIN responseCallbacks), does)} :
       CommitReentrant(st)
  /\ out' = <<>> /\ raised' = FALSE /\ rx' = <<>>

\* the options.timeout timer of call c, the callback it invokes doing does
CallTimeoutReentrant(c, does) ==
  /\ UNCHANGED <<connected, optTimeout, capVars, binderVars, retries, chunkVars, managerVars>>
  /\ c \in callTimers
  /\ LET id == PayloadId(calls[c])
         st == [Here EXCEPT !.callTimers = @ \ {c}]
     IN \E after \in {IF id \in DOMAIN responseCallbacks
                      THEN InvokeThenDelete(st, id, "Connection timeout", NoValue, does)
                      ELSE st} :
          CommitReentrant(after)
  /\ out' = <<>> /\ raised' = FALSE /\ rx' = <<>>

ReentrantChunks == {Reply(i) : i \in Ids} \cup {Reply(MaxId) \o Reply(1)}

NextReentrant ==
  \/ OnOpen
  \/ OnClose
  \/ Disconnect
  \/ \E i \in Ids : Send(i)
  \/ \E c \in deferred : RetrySend(c)
  \/ \E does \in Reentries : OnErrorReentrant(does)
  \/ \E c \in callTimers, does \in Reentries : CallTimeoutReentrant(c, does)
  \/ \E data \in ReentrantChunks, does \in Reentries : OnMessageReentrant(data, does)

SpecReentrant == Init /\ [][NextReentrant]_vars

\* no callback of a call has been invoked more than once
AtMostOnce == \A c \in 1..Len(invoked) : invoked[c] <= 1

\* C24: the callback of a call the provider transmitted is invoked at most
\* once, whatever replies (duplicates included), timers, socket events,
\* resets and sends follow, and also when a callback calls send, reset or
\* disconnect of the provider while it is being invoked.
C24_AtMostOnce == AtMostOnce

\* the same, for the steps in which no callback calls reset or send
C24_AtMostOnceNoReentry ==
  [][(\/ OnOpen \/ OnClose \/ Disconnect
      \/ \E i \in Ids : Send(i)
      \/ \E c \in deferred : RetrySend(c)
      \/ \E does \in {NoCall, CallsDisconnect} :
           \/ OnErrorReentrant(does)
           \/ \E c \in callTimers : CallTimeoutReentrant(c, does)
           \/ \E data \in ReentrantChunks : OnMessageReentrant(data, does))
     => (AtMostOnce => AtMostOnce')]_vars

\* a callback invoked with its reply has been invoked again, with an error
C24_WitnessTwice ==
  /\ rx # <<>>
  /\ Len(fired) = 2
  /\ fired[1].call = fired[2].call
  /\ fired[1].error = "none"
  /\ fired[2].error = "Connection error"

\* the callback of the entry under id is invoked in this step, with a reply,
\* a timeout error or a connection error
EntryInvoked(id) ==
  \E k \in 1..Len(fired') :
     /\ fired'[k].call = responseCallbacks[id].callback
     /\ fired'[k].error \in {"none", "Connection timeout", "Connection error"}

\* the entry under id is in the table after the step as it was before
EntryKept(id) ==
  /\ id \in DOMAIN responseCallbacks'
  /\ responseCallbacks'[id] = responseCallbacks[id]

\* C25: with single and batch sends made through the Request Manager, an
\* entry of the pending table leaves the table only in a step that invokes
\* its callback; a step that registers a new call keeps every entry there
\* was; and the per-call timer of a call invokes no other call's callback,
\* whether its own call is finished or not.
C25_PendingEntries ==
  [][/\ \A id \in DOMAIN responseCallbacks : EntryKept(id) \/ EntryInvoked(id)
     /\ txd' # <<>> => \A id \in DOMAIN responseCallbacks : EntryKept(id)
     /\ \A c \in callTimers \ callTimers' :
          \A k \in 1..Len(fired') : fired'[k].call = c
  ]_vars

\* the per-call timer of the finished call 1 has fired while call 2 is
\* pending, and call 2 is pending still
C25_Witness ==
  /\ optTimeout
  /\ Len(calls) = 2
  /\ invoked = <<1, 0>>
  /\ callTimers = {2}
  /\ \E id \in DOMAIN responseCallbacks : responseCallbacks[id].callback = 2
  /\ fired = <<>> /\ txd = <<>> /\ rx = <<>>

\* a batch has been registered next to a pending single call
C25_WitnessBatch ==
  /\ txd # <<>>
  /\ Len(calls) = 2
  /\ managed[2] = "batch"
  /\ Cardinality(DOMAIN responseCallbacks) = 2

\* the callback of call c is invoked once in this step, with 'connection
\* not open'
FailsNotOpen(c) ==
  \E k \in 1..Len(fired') :
     /\ fired'[k].call = c
     /\ fired'[k].error = "connection not open"
     /\ \A j \in 1..Len(fired') : fired'[j].call = c => j = k

\* C26: the connection never reopens.  The step that handles the close
\* event leaves the pending table empty and the observer list cleared; from
\* then on the socket stays closed, the table stays empty, nothing is
\* written to the socket, and every send, a first attempt or the retry of
\* a send deferred while connecting, fails with 'connection not open'.
C26_Closed ==
  [][/\ (readyState # "CLOSED" /\ readyState' = "CLOSED")
          => (DOMAIN responseCallbacks' = {} /\ notificationCallbacks' = <<>>)
     /\ readyState = "CLOSED"
          => /\ readyState' = "CLOSED"
             /\ DOMAIN responseCallbacks' = {}
             /\ txd' = <<>>
             /\ Len(calls') > Len(calls) => FailsNotOpen(Len(calls'))
             /\ \A c \in deferred \ deferred' : FailsNotOpen(c)
             /\ deferred' \subseteq deferred
  ]_vars

\* a send deferred while connecting has been retried after the close and
\* has failed
C26_Witness ==
  /\ readyState = "CLOSED"
  /\ Len(calls) = 1
  /\ retries = 1
  /\ deferred = {}
  /\ Len(fired) = 1 /\ fired[1].call = 1 /\ fired[1].error = "connection not open"
  /\ txd = <<>>
  /\ DOMAIN responseCallbacks = {}

\* the close event has been handled with a call pending and an observer
\* registered
C26_WitnessClose ==
  /\ readyState = "CLOSED"
  /\ Len(fired) = 1 /\ fired[1].error = "Connection error"
  /\ notificationCallbacks = <<>>
  /\ DOMAIN responseCallbacks = {}

(***************************************************************************)
(* The provider with its timers given their turn.  A timer that is          *)
(* scheduled fires; the socket does not stay CONNECTING for ever.           *)
(***************************************************************************)
PendingChunks == {Reply(i) : i \in Ids} \cup {<<LBrace>>}

NextPending ==
  \/ OnOpen
  \/ OnError
  \/ OnClose
  \/ Disconnect
  \/ Reset
  \/ \E i \in Ids : Send(i)
  \/ \E c \in deferred : RetrySend(c)
  \/ \E c \in callTimers : CallTimeout(c)
  \/ GraceTimeout
  \/ \E data \in PendingChunks : OnMessage(data)

\* the socket leaves CONNECTING
LeaveConnecting ==
  /\ readyState = "CONNECTING"
  /\ OnOpen \/ OnError \/ OnClose \/ Disconnect

SpecPending ==
  /\ Init
  /\ [][NextPending]_vars
  /\ \A c \in 1..MaxCalls : WF_vars(RetrySend(c)) /\ WF_vars(CallTimeout(c))
  /\ WF_vars(LeaveConnecting)

\* with options.timeout set, the callback of every call handed to send is
\* invoked sooner or later
EveryCallEnds ==
  \A c \in 1..MaxCalls : (optTimeout /\ Len(calls) >= c) ~> (Times(invoked, c) >= 1)

\* the entry under id is answered in this step
EntryAnswered(id) ==
  \E k \in 1..Len(fired') :
     /\ fired'[k].call = responseCallbacks[id].callback
     /\ fired'[k].error = "none"

\* a send finds the connection not open
SendNotOpen == \E k \in 1..Len(fired') : fired'[k].error = "connection not open"

\* C27: with options.timeout set, every call handed to send has its
\* callback invoked sooner or later, timers firing and the socket leaving
\* CONNECTING; without it, a transmitted call that gets no reply stays
\* pending until the socket's error or close event, reset() or the 15 s
\* timer.
C27_Termination ==
  /\ EveryCallEnds
  /\ [][~optTimeout =>
          \A id \in DOMAIN responseCallbacks :
             \/ EntryKept(id) \/ EntryAnswered(id)
             \/ OnError \/ OnClose \/ Reset \/ GraceTimeout]_vars

\* C27, as amended: with options.timeout set, every call handed to send
\* has its callback invoked sooner or later; without it, a transmitted call
\* that gets no reply stays pending until the socket's error or close
\* event, reset(), the 15 s timer, or a send made while the connection is
\* not open.
C27_TerminationAmended ==
  /\ EveryCallEnds
  /\ [][~optTimeout =>
          \A id \in DOMAIN responseCallbacks :
             \/ EntryKept(id) \/ EntryAnswered(id)
             \/ OnError \/ OnClose \/ Reset \/ GraceTimeout
             \/ SendNotOpen]_vars

\* a call has been failed by its own timer
C27_Witness ==
  /\ optTimeout
  /\ Len(fired) = 1
  /\ fired[1].error = "Connection timeout"
  /\ Times(invoked, fired[1].call) = 1

\* without a timeout, a pending call has been failed by a send on a
\* connection that is not open
C27_WitnessSend ==
  /\ ~optTimeout
  /\ Len(fired) = 2
  /\ fired[1].error = "Connection error"
  /\ fired[2].error = "connection not open"

(***************************************************************************)
(* The Request Manager's registry, clearSubscriptions and the notifications *)
(* that arrive afterwards.                                                  *)
(***************************************************************************)
ClearedChunks ==
  {Notification(s, "r1") : s \in SubIds}
    \cup {Notification("a", "r1") \o Notification("b", "r2")}

NextCleared ==
  \/ OnOpen
  \/ \E id \in SubIds, name \in SubNames : AddSubscription(id, name, "eth", 1)
  \/ \E keepIsSyncing \in BOOLEAN : ClearSubscriptions(keepIsSyncing)
  \/ \E c \in deferred : RetrySend(c)
  \/ \E data \in ClearedChunks : OnMessage(data)

SpecCleared == InitSubscriptions /\ [][NextCleared]_vars

\* C28: a subscription in the registry, one named syncing that
\* clearSubscriptions(true) kept or one added after a clearSubscriptions
\* call, receives its notifications: every notification that arrives on the
\* open transport for a registered id invokes the registered callback with
\* the notification's result.
C28_KeptSubscriptionNotified ==
  [][rx' # <<>> => delivered' = Deliveries(out', subscriptions)]_vars

\* the same while the manager's 'data' handler is among the provider's
\* observers
C28_NotifiedWhileAttached ==
  [][(rx' # <<>> /\ RMListener \in {notificationCallbacks[k] :
                                      k \in 1..Len(notificationCallbacks)})
       => delivered' = Deliveries(out', subscriptions)]_vars

\* the same on a provider that has no reset method
C28_NotifiedWithoutReset ==
  [][(rx' # <<>> /\ ~hasReset) => delivered' = Deliveries(out', subscriptions)]_vars

\* a notification for the registered syncing subscription "a" has arrived
\* and no callback was invoked
C28_WitnessLost ==
  /\ rx = <<Notification("a", "r1")>>
  /\ "a" \in DOMAIN subscriptions
  /\ subscriptions["a"].name = "syncing"
  /\ delivered = <<>>
  /\ notificationCallbacks = <<>>

(***************************************************************************)
(* Contract.on, once and getPastEvents with event names the interface       *)
(* does not have.                                                           *)
(***************************************************************************)
NoFilter == [filter |-> EmptyMap, topics |-> NoTopics, fromBlock |-> "", toBlock |-> ""]

\* contract.getPastEvents(eventName): an async function, so what its body
\* throws rejects the promise it returns; eth.getPastLogs sends eth_getLogs
GetPastEvents(eventName) ==
  /\ ret.op # "none"
  /\ Len(calls) < MaxCalls
  /\ \E subOptions \in {GenerateEventOptionsResult(eventName, NoFilter)} :
       IF subOptions.op = "throw"
       THEN /\ ret' = [op |-> "getPastEvents", state |-> "rejected",
                       error |-> subOptions.error]
            /\ out' = <<>> /\ fired' = <<>> /\ notified' = <<>> /\ delivered' = <<>>
            /\ txd' = <<>> /\ settled' = <<>> /\ invoked' = invoked
            /\ UNCHANGED <<tableVars, managerVars, listeners>>
       ELSE /\ ret' = [op |-> "getPastEvents", state |-> "pending", error |-> ""]
            /\ out' = <<>>
            /\ \E st \in {ManagerSendIn(Now, "eth_getLogs", <<>>)} :
                 Commit(Continuations(st, 1))
  /\ raised' = FALSE
  /\ rx' = <<>>
  /\ UNCHANGED <<socketVars, optTimeout, hasOn, hasReset, jsonInterface, address, retries,
                 notificationCallbacks, chunkVars>>

NextEvents ==
  \/ OnOpen
  \/ Construct({<<entry>> : entry \in EventEntries})
  \/ \E eventName \in ContractEventNames, once \in BOOLEAN : ContractOn(eventName, once)
  \/ \E eventName \in ContractEventNames : GetPastEvents(eventName)
  \/ \E c \in deferred : RetrySend(c)
  \/ \E i \in 1..MaxCalls, s \in SubIds : OnMessageContract(SubscribeReply(i, s))

SpecEvents == InitContract /\ [][NextEvents]_vars

\* the interface has no event of this name and it is not the all-events name
UnknownEvent(eventName) == ~IsAllEvents(eventName) /\ FindEvent(eventName) = <<>>

\* the message of the throw statement of generateEventOptions, the name
\* standing between double quotes in the source
EventDoesNotExist(eventName) ==
  CASE eventName = "Transfer" -> "Event Transfer doesn't exist in this contract."
    [] eventName = "Approval" -> "Event Approval doesn't exist in this contract."
    [] OTHER -> "Event doesn't exist in this contract."

\* nothing is sent and no subscription is made
NothingStarted ==
  /\ txd' = <<>>
  /\ calls' = calls
  /\ messageId' = messageId
  /\ listeners' = listeners
  /\ subscriptions' = subscriptions
  /\ responseCallbacks' = responseCallbacks
  /\ deferred' = deferred

\* C29: on, once and getPastEvents with an event name that matches no event
\* of the interface, and is not the all-events name, fail synchronously
\* with an error that says the event does not exist and names it, before
\* anything is sent and without a subscription being made.
C29_UnknownEvent ==
  [][\A eventName \in ContractEventNames :
       UnknownEvent(eventName) =>
         /\ \A once \in BOOLEAN :
              ContractOn(eventName, once)
                => /\ raised'
                   /\ ret'.error = EventDoesNotExist(eventName)
                   /\ NothingStarted
         /\ GetPastEvents(eventName)
              => /\ raised'
                 /\ ret'.error = EventDoesNotExist(eventName)
                 /\ NothingStarted
  ]_vars

\* what the code does for such a name: on and once throw a TypeError,
\* getPastEvents returns a promise rejected with it; nothing is sent and no
\* subscription is made
C29_UnknownEventFails ==
  [][\A eventName \in ContractEventNames :
       UnknownEvent(eventName) =>
         /\ \A once \in BOOLEAN :
              ContractOn(eventName, once)
                => /\ raised'
                   /\ ret' = [op |-> "throw",
                              error |-> "TypeError: Cannot read property 'name' of undefined"]
                   /\ NothingStarted
         /\ GetPastEvents(eventName)
              => /\ ~raised'
                 /\ ret' = [op |-> "getPastEvents", state |-> "rejected",
                            error |-> "TypeError: Cannot read property 'name' of undefined"]
                 /\ NothingStarted
  ]_vars

\* on or once has thrown for a name the interface does not have
C29_WitnessThrown ==
  /\ raised
  /\ ret.op = "throw"
  /\ ret.error = "TypeError: Cannot read property 'name' of undefined"
  /\ jsonInterface # <<>>

\* getPastEvents has returned a rejected promise for such a name
C29_WitnessRejected ==
  /\ ~raised
  /\ ret.op = "getPastEvents"
  /\ ret.state = "rejected"

====
